---- MODULE Spec2Model ----
(***************************************************************************)
(* A model of the record core of the hts library (packages sam and bam):   *)
(* the aux-field count/index passes, the unique-tag lookup, the binary     *)
(* record decoder with its scratch arena, the record freelist and the      *)
(* record-level helpers (End, Len, IsValidRecord, NewRecord).              *)
(*                                                                         *)
(* Bytes are integers 0..255.  Go slices are 0-based; TLA+ sequences are   *)
(* 1-based, so byte k of a Go slice b is b[k+1] here (operator At).        *)
(***************************************************************************)
EXTENDS Integers, Sequences, FiniteSets, TLC

VARIABLES
    aux,      \* aux group: the aux byte range handed to countAuxFields / parseAux
    auxCap,   \* aux group: cap(aux) - len(aux) of that slice
    auxPc,    \* aux group: "build" | "cut" | "counted" | "parsed" | "queried"
    cres,     \* aux group: result of countAuxFields
    pres,     \* aux group: result of parseAux
    qtag,     \* aux group: the tag last handed to GetUnique
    gres,     \* aux group: result of AuxFields.GetUnique
    payload,  \* decoder group: the record payload b handed to unmarshal
    nrefs,    \* decoder group: len(header.Refs())
    omit,     \* decoder group: the Reader's omit setting
    dbase,    \* decoder group: the record the freelist handed to unmarshal
    dres,     \* decoder group: what unmarshal returned
    dpc,      \* decoder group: "idle" | "done"
    pool,     \* freelist group: the records recordPool holds
    held,     \* freelist group: the record the caller holds
    got,      \* freelist group: the record GetFromFreePool returned last
    lpc,      \* freelist group: "none" | "got" | "new" | "decoded"
    rin,      \* record group: the record handed to End, Len, IsValidRecord
    rout,     \* record group: what they returned
    rpc,      \* record group: "idle" | "done"
    stream,   \* reader group: the records of the BGZF stream after the header
    roff,     \* reader group: the offset the bgzf reader stands at
    rc,       \* reader group: Reader.c, the chunk reads are limited to
    itChunks, \* reader group: Iterator.chunks, the chunks still to visit
    itErr,    \* reader group: Iterator.err
    itRec,    \* reader group: Iterator.rec
    chunks0,  \* reader group: the chunk list NewIterator was given
    ilog,     \* reader group: the Read and Seek calls made so far, in order
    ipc,      \* reader group: "init" | "open" | "iter" | "failed" | "closed"
    tfields,  \* tag group: the record's AuxFields
    tcall,    \* tag group: the accessor called last
    tres,     \* tag group: what it returned
    sbytes,   \* sequence group: the bytes handed to NewSeq
    sres,     \* sequence group: the Seq, its Expand() and its BaseChar(i)
    spc,      \* sequence group: "idle" | "done"
    samLine,  \* text group: the SAM line handed to UnmarshalSAM
    samHdr,   \* text group: the *Header handed to UnmarshalSAM
    samRec,   \* text group: what UnmarshalSAM made of samLine
    samBuf,   \* text group: what MarshalSAM made of that record
    samRec2,  \* text group: what UnmarshalSAM made of MarshalSAM's output
    ffl,      \* text group: an argument pair of formatFlags and its result
    samPc     \* text group: "idle" | "parsed" | "marshalled" | "reparsed" | "flags"

auxVars == <<aux, auxCap, auxPc, cres, pres, qtag, gres>>
decVars == <<payload, nrefs, omit, dbase, dres, dpc>>

poolVars == <<pool, held, got, lpc>>
recVars == <<rin, rout, rpc>>
readerVars == <<stream, roff, rc, itChunks, itErr, itRec, chunks0, ilog, ipc>>

tagVars == <<tfields, tcall, tres>>

seqVars == <<sbytes, sres, spc>>

samVars == <<samLine, samHdr, samRec, samBuf, samRec2, ffl, samPc>>

vars ==
    <<auxVars, decVars, poolVars, recVars, readerVars, tagVars, seqVars,
      samVars>>

\* What the actions of one group leave alone.
AuxFrame ==
    UNCHANGED <<decVars, poolVars, recVars, readerVars, tagVars, seqVars,
                samVars>>
DecFrame ==
    UNCHANGED <<auxVars, poolVars, recVars, readerVars, tagVars, seqVars,
                samVars>>
PoolFrame ==
    UNCHANGED <<auxVars, decVars, recVars, readerVars, tagVars, seqVars,
                samVars>>
RecFrame ==
    UNCHANGED <<auxVars, decVars, poolVars, readerVars, tagVars, seqVars,
                samVars>>
ReaderFrame ==
    UNCHANGED <<auxVars, decVars, poolVars, recVars, tagVars, seqVars,
                samVars>>
SeqFrame ==
    UNCHANGED <<auxVars, decVars, poolVars, recVars, readerVars, tagVars,
                samVars>>
TagFrame ==
    UNCHANGED <<auxVars, decVars, poolVars, recVars, readerVars, seqVars,
                samVars>>
SamFrame ==
    UNCHANGED <<auxVars, decVars, poolVars, recVars, readerVars, tagVars,
                seqVars>>

(***************************************************************************)
(* Bounds of the model.                                                    *)
(***************************************************************************)
MaxAuxLen == 18
MaxAuxExtraCap == 1
MaxRefs == 1
MaxNameLen == 3
MaxCigar == 1
MaxSeqLen == 2
MaxCut == 1
MaxPool == 1
MaxCigarOps == 2
MaxStream == 2
MaxChunks == 2
MaxTagFields == 2
MaxSeqTail == 2

(***************************************************************************)
(* Go helpers.                                                             *)
(***************************************************************************)
\* Go's integer division truncates toward zero (TLA+'s \div floors).
GoDiv(a, b) == IF a >= 0 THEN a \div b ELSE -((-a) \div b)

\* b[k] of a Go slice (0-based).
At(b, k) == b[k + 1]

\* b[lo:hi] of a Go slice, for 0 <= lo <= hi <= len(b).
Slice(b, lo, hi) == SubSeq(b, lo + 1, hi)

\* binary.LittleEndian.Uint32(b[off:]); the inputs of the model keep the top
\* byte below 128 so that the value fits TLC's integers.
Uint32(b, off) ==
    At(b, off) + 256 * At(b, off + 1) + 65536 * At(b, off + 2)
        + 16777216 * At(b, off + 3)

\* binary.LittleEndian.Uint16(b[off:])
Uint16(b, off) == At(b, off) + 256 * At(b, off + 1)

\* int(int32(binary.LittleEndian.Uint32(b[off:]))): two's complement.
Int32(b, off) ==
    At(b, off) + 256 * At(b, off + 1) + 65536 * At(b, off + 2)
        + 16777216 * (IF At(b, off + 3) >= 128 THEN At(b, off + 3) - 256
                      ELSE At(b, off + 3))

(***************************************************************************)
(* Aux fields: the jump table and the two passes over the aux byte range.  *)
(***************************************************************************)
\* var jumps = [256]int{...}: payload width by type byte; -1 for the
\* variable-length types Z (90), H (72), B (66); 0 for every other byte.
jumps(t) ==
    CASE t = 65 -> 1                 \* 'A'
      [] t = 99 \/ t = 67 -> 1       \* 'c', 'C'
      [] t = 115 \/ t = 83 -> 2      \* 's', 'S'
      [] t = 105 \/ t = 73 -> 4      \* 'i', 'I'
      [] t = 102 -> 4                \* 'f'
      [] t = 90 -> -1                \* 'Z'
      [] t = 72 -> -1                \* 'H'
      [] t = 66 -> -1                \* 'B'
      [] OTHER -> 0

\* for j, v = range aux[i:] { if v == 0 { break } }: the loop, from offset j.
RECURSIVE zhScanFrom(_, _, _)
zhScanFrom(a, i, j) ==
    IF At(a, i + j) = 0 \/ i + j = Len(a) - 1 THEN j
    ELSE zhScanFrom(a, i, j + 1)

\* Mutant of zhScan: the scan ends one past the byte it stopped at.
zhScanPastNul(a, i) == zhScanFrom(a, i, 0) + 1

\* The value of j after the range loop: the offset (from i) of the first NUL
\* at or after i, and of the last byte of the range when there is none.
\* (i < len(aux) here, so the range is not empty.)
zhScan(a, i) == zhScanFrom(a, i, 0)

\* The advance of the 'B' case: int(length)*jumps[aux[i+3]] + 4 + 4.
bJump(a, i) == Uint32(a, i + 4) * jumps(At(a, i + 3)) + 4 + 4

\* countAuxFields.  The loop state is (i, naux); steps bounds the number of
\* iterations: the loop visits an offset twice only if it never ends, and a
\* negative offset makes the next index expression panic.
RECURSIVE countLoop(_, _, _, _)
countLoop(a, i, naux, steps) ==
    IF ~(i + 2 < Len(a)) THEN [n |-> naux, err |-> "nil"]
    ELSE IF i + 2 < 0 THEN [n |-> -1, err |-> "panic"]
    ELSE IF steps = 0 THEN [n |-> -1, err |-> "hang"]
    ELSE LET t == At(a, i + 2)
             j == jumps(t)
         IN  IF j > 0 THEN countLoop(a, i + j + 3, naux + 1, steps - 1)
             ELSE IF j < 0 THEN
                 IF t = 90 \/ t = 72 THEN
                     IF i < 0 THEN [n |-> -1, err |-> "panic"]
                     ELSE countLoop(a, i + zhScan(a, i) + 1, naux + 1, steps - 1)
                 ELSE \* 'B'
                     IF Len(a) < i + 8 THEN [n |-> -1, err |-> "corrupt"]
                     ELSE IF i + 4 < 0 THEN [n |-> -1, err |-> "panic"]
                     ELSE countLoop(a, i + bJump(a, i), naux + 1, steps - 1)
             ELSE [n |-> -1, err |-> "corrupt"]

countAuxFields(a) == countLoop(a, 0, 0, 2 * Len(a) + 4)

\* parseAux(aux, aa): aa has len(aa) = nAux slots; cap is cap(aux).  An entry
\* is the slice aux[lo:hi:hi], kept as its bounds.  Go panics when a slice
\* bound exceeds the capacity or is inverted and when aa is indexed past its
\* length.
RECURSIVE parseLoop(_, _, _, _, _, _)
parseLoop(a, cap, nAux, i, aa, steps) ==
    IF ~(i + 2 < Len(a)) THEN [aa |-> aa, err |-> "nil"]
    ELSE IF i + 2 < 0 THEN [aa |-> aa, err |-> "panic"]
    ELSE IF steps = 0 THEN [aa |-> aa, err |-> "hang"]
    ELSE LET t == At(a, i + 2)
             j == jumps(t)
             k == IF j > 0 THEN j + 3
                  ELSE IF t = 90 \/ t = 72 THEN (IF i < 0 THEN 0 ELSE zhScan(a, i))
                  ELSE IF i + 4 < 0 \/ i + 8 > Len(a) THEN 0 ELSE bJump(a, i)
             adv == IF j < 0 /\ (t = 90 \/ t = 72) THEN k + 1 ELSE k
         IN  IF j = 0 THEN [aa |-> aa, err |-> "panic"]
             ELSE IF i < 0 \/ (t = 66 /\ i + 8 > cap) THEN [aa |-> aa, err |-> "panic"]
             \* aux[i+4:i+8] within the capacity but past len(aux): the count is
             \* read from bytes outside the range (countAuxFields refuses these).
             ELSE IF t = 66 /\ i + 8 > Len(a) THEN [aa |-> aa, err |-> "stale"]
             ELSE IF i + k > cap \/ i + k < i THEN [aa |-> aa, err |-> "panic"]
             ELSE IF Len(aa) >= nAux THEN [aa |-> aa, err |-> "panic"]
             ELSE parseLoop(a, cap, nAux, i + adv,
                            Append(aa, [lo |-> i, hi |-> i + k]), steps - 1)

parseAux(a, cap, nAux) == parseLoop(a, cap, nAux, 0, <<>>, 2 * Len(a) + 4)

\* The bytes of the entry aux[lo:hi:hi].  Bytes past len(aux) are whatever
\* the backing array holds there: Stale stands for such a byte.
Stale == -1

auxBytes(a, e) ==
    [k \in 1..(e.hi - e.lo) |->
        IF e.lo + k <= Len(a) THEN a[e.lo + k] ELSE Stale]

AuxFieldsOf(a, aa) == [k \in 1..Len(aa) |-> auxBytes(a, aa[k])]

(***************************************************************************)
(* AuxFields.GetUnique (auxtags.go, exercised by TestGetUnique).           *)
(***************************************************************************)
NilAux == <<>>

\* Aux.matches / Aux.Tag(): the first two bytes of a field are its tag.
auxMatches(f, tag) == Len(f) >= 2 /\ f[1] = tag[1] /\ f[2] = tag[2]

\* Mutant of GetUnique: the first field carrying the tag, no ambiguity check.
RECURSIVE getFirstLoop(_, _, _)
getFirstLoop(fs, tag, k) ==
    IF k > Len(fs) THEN [aux |-> NilAux, err |-> "nil"]
    ELSE IF auxMatches(fs[k], tag) THEN [aux |-> fs[k], err |-> "nil"]
    ELSE getFirstLoop(fs, tag, k + 1)

GetFirst(fs, tag) == getFirstLoop(fs, tag, 1)

RECURSIVE getUniqueLoop(_, _, _, _)
getUniqueLoop(fs, tag, k, found) ==
    IF k > Len(fs) THEN [aux |-> found, err |-> "nil"]
    ELSE IF auxMatches(fs[k], tag) THEN
        IF found # NilAux THEN [aux |-> NilAux, err |-> "ambiguous"]
        ELSE getUniqueLoop(fs, tag, k + 1, fs[k])
    ELSE getUniqueLoop(fs, tag, k + 1, found)

GetUnique(fs, tag) == getUniqueLoop(fs, tag, 1, NilAux)

(***************************************************************************)
(* The aux specification: an aux byte range is built from fields (and cut  *)
(* short, as a truncated record tail is), counted, indexed and queried.    *)
(***************************************************************************)
\* Fields the byte ranges are built from: DI:c:5, DS:s:2, DI:Z:"4", LD:H:"",
\* XB:B:c,[7] and XX with the unrecognized type byte '!'.
AuxChunks ==
    { <<68, 73, 99, 5>>,
      <<68, 83, 115, 2, 0>>,
      <<68, 73, 90, 52, 0>>,
      <<76, 68, 72, 0>>,
      <<88, 66, 66, 99, 1, 0, 0, 0, 7>>,
      <<88, 88, 33, 1>> }

\* Tags looked up: DI, DS and LI (never present).
QueryTags == { <<68, 73>>, <<68, 83>>, <<76, 73>> }

NoCount == [n |-> 0, err |-> "none"]
NoParse == [aa |-> <<>>, err |-> "none"]
NoGet == [aux |-> NilAux, err |-> "none"]

AppendField ==
    /\ auxPc = "build"
    /\ \E c \in AuxChunks :
          /\ Len(aux) + Len(c) <= MaxAuxLen
          /\ aux' = aux \o c
    /\ UNCHANGED <<auxCap, auxPc, cres, pres, qtag, gres>>
    /\ AuxFrame

DropByte ==
    /\ auxPc \in {"build", "cut"}
    /\ Len(aux) > 0
    /\ aux' = SubSeq(aux, 1, Len(aux) - 1)
    /\ auxPc' = "cut"
    /\ UNCHANGED <<auxCap, cres, pres, qtag, gres>>
    /\ AuxFrame

CountAux ==
    /\ auxPc \in {"build", "cut"}
    /\ cres' = countAuxFields(aux)
    /\ auxPc' = "counted"
    /\ UNCHANGED <<aux, auxCap, pres, qtag, gres>>
    /\ AuxFrame

\* unmarshal calls parseAux only after countAuxFields succeeded with
\* nAuxFields > 0, with aa sized to the count.
ParseAux ==
    /\ auxPc = "counted"
    /\ cres.err = "nil"
    /\ \E extra \in 0..MaxAuxExtraCap :
          /\ auxCap' = extra
          /\ pres' = IF cres.n > 0 THEN parseAux(aux, Len(aux) + extra, cres.n)
                     ELSE [aa |-> <<>>, err |-> "nil"]
    /\ auxPc' = "parsed"
    /\ UNCHANGED <<aux, cres, qtag, gres>>
    /\ AuxFrame

QueryUnique ==
    /\ auxPc = "parsed"
    /\ pres.err = "nil"
    /\ \E tag \in QueryTags :
          /\ qtag' = tag
          /\ gres' = GetUnique(AuxFieldsOf(aux, pres.aa), tag)
    /\ auxPc' = "queried"
    /\ UNCHANGED <<aux, auxCap, cres, pres>>
    /\ AuxFrame


(***************************************************************************)
(* Records, references and the scratch arena.                              *)
(***************************************************************************)
\* A *Reference: nil, or a reference with its id (header.Refs()[k] has id k).
NilRef == [nil |-> TRUE, id |-> 0]
HeaderRef(k) == [nil |-> FALSE, id |-> k]

\* Seq{}: the zero Seq.
EmptySeq == [Length |-> 0, Seq |-> <<>>]

\* A []byte kept as its header: nil or not, length and capacity.
NilScratch == [nil |-> TRUE, len |-> 0, cap |-> 0]

\* A string header with a negative length: no read of it is defined.
BadString == <<-1>>

\* &Record{}: what the freelist's New function returns.
ZeroRecord ==
    [Name |-> <<>>, Ref |-> NilRef, Pos |-> 0, MapQ |-> 0, Cigar |-> <<>>,
     Flags |-> 0, MateRef |-> NilRef, MatePos |-> 0, TempLen |-> 0,
     Seq |-> EmptySeq, Qual |-> <<>>, AuxFields |-> <<>>,
     Scratch |-> NilScratch]

\* GetFromFreePool, after recordPool.Get() returned r: the seven assignments.
ResetRecord(r) ==
    [r EXCEPT !.Name = <<>>, !.Ref = NilRef, !.MateRef = NilRef,
              !.Cigar = <<>>, !.Seq = EmptySeq, !.Qual = <<>>,
              !.AuxFields = <<>>]

\* unsafe.Sizeof(reflect.SliceHeader{}) on a 64-bit build.
sizeofSliceHeader == 24

\* alignOffset: ((off-1)/pointerSize + 1) * pointerSize, with Go's division.
alignOffset(off) == (GoDiv(off - 1, 8) + 1) * 8

\* resizeScratch(buf, n): a new buffer when buf is nil or too small, else buf[:n].
resizeScratch(buf, n) ==
    IF buf.nil \/ buf.cap < n
    THEN [nil |-> FALSE, len |-> n, cap |-> (GoDiv(n, 16) + 1) * 16]
    ELSE [buf EXCEPT !.len = n]

\* Reader.Omit values.
None == 0
AuxTags == 1
AllVariableLengthData == 2

(***************************************************************************)
(* The binary decoder: unmarshal.                                          *)
(***************************************************************************)
\* Mutant of nDoubletBytes: the half is rounded down.
nDoubletBytesFloor(lSeq) == lSeq \div 2

\* nDoubletBytes := (lSeq + 1) >> 1
nDoubletBytes(lSeq) == (lSeq + 1) \div 2

\* bAuxOffset := pos + nLen + (nCigar * 4) + nDoubletBytes + lSeq, pos = 32
bAuxOffsetOf(nLen, nCigar, lSeq) ==
    32 + nLen + (nCigar * 4) + nDoubletBytes(lSeq) + lSeq

\* A string or slice header set to Data = base + off, Len = len over the
\* shadow buffer, whose first Len(var) bytes are the copy of b[32:].
NoSpan == [off |-> 0, len |-> 0]
spanBytes(var, sp) ==
    IF sp.len < 0 THEN BadString ELSE Slice(var, sp.off, sp.off + sp.len)

\* The cigar words re-read from the copy and stored into the aligned area.
cigarWords(var, from, nCigar) ==
    [i \in 1..nCigar |-> Uint32(var, from + (i - 1) * 4)]

NoLayout ==
    [name |-> NoSpan, cigarFrom |-> 0, cigarOffset |-> 0, seq |-> NoSpan,
     qual |-> NoSpan, auxCounted |-> NoSpan, auxParsed |-> NoSpan,
     aux |-> <<>>, auxOffset |-> 0, blen |-> 0]

decodeFail(e) == [err |-> e, rec |-> ZeroRecord, lay |-> NoLayout, ok |-> FALSE]

\* Mutant of linkRefs: the mate reference id is not range checked.
linkRefsMateUnchecked(rec, lay, refID, nextRefID, refs) ==
    IF refID # -1 /\ (refID < -1 \/ refID >= refs) THEN decodeFail("refid")
    ELSE LET r1 == IF refID # -1 THEN [rec EXCEPT !.Ref = HeaderRef(refID)]
                   ELSE rec
         IN  IF nextRefID = -1 THEN [err |-> "nil", rec |-> r1, lay |-> lay, ok |-> TRUE]
             ELSE [err |-> "nil",
                   rec |-> [r1 EXCEPT !.MateRef = HeaderRef(nextRefID)],
                   lay |-> lay, ok |-> TRUE]

\* The reference linking at the label done.
linkRefs(rec, lay, refID, nextRefID, refs) ==
    IF refID # -1 /\ (refID < -1 \/ refID >= refs) THEN decodeFail("refid")
    ELSE LET r1 == IF refID # -1 THEN [rec EXCEPT !.Ref = HeaderRef(refID)]
                   ELSE rec
         IN  IF nextRefID = -1 THEN [err |-> "nil", rec |-> r1, lay |-> lay, ok |-> TRUE]
             ELSE IF refID = nextRefID
                 THEN [err |-> "nil", rec |-> [r1 EXCEPT !.MateRef = r1.Ref],
                       lay |-> lay, ok |-> TRUE]
             ELSE IF nextRefID < -1 \/ nextRefID >= refs THEN decodeFail("materefid")
             ELSE [err |-> "nil",
                   rec |-> [r1 EXCEPT !.MateRef = HeaderRef(nextRefID)],
                   lay |-> lay, ok |-> TRUE]

\* unmarshal(b, header, omit), with rec0 the record GetFromFreePool returned
\* and refs = len(header.Refs()).
unmarshal(rec0, b, refs, om) ==
    IF Len(b) < 32 THEN decodeFail("short")
    ELSE
    LET refID == Int32(b, 0)
        nLen == At(b, 8)
        nCigar == Uint16(b, 12)
        lSeq == Uint32(b, 16)
        nextRefID == Int32(b, 20)
        blen == Len(b) - 32
        cigarOffset == alignOffset(blen)
        auxOffset == alignOffset(cigarOffset + (nCigar * 4))
        bAuxOffset == bAuxOffsetOf(nLen, nCigar, lSeq)
    IN
    IF Len(b) < bAuxOffset THEN decodeFail("truncated")
    ELSE
    LET cnt == countAuxFields(Slice(b, bAuxOffset, Len(b))) IN
    IF cnt.err # "nil" THEN decodeFail(cnt.err)
    ELSE
    LET nAuxFields == cnt.n
        shadowSize == auxOffset + (nAuxFields * sizeofSliceHeader)
        scratch == resizeScratch(rec0.Scratch, shadowSize)
        var == Slice(b, 32, Len(b))            \* copy(shadowBuf, b[pos:])
        nameSpan == [off |-> 0, len |-> nLen - 1]
        off1 == nLen
        off2 == off1 + nCigar * 4
        seqSpan == [off |-> off2, len |-> nDoubletBytes(lSeq)]
        off3 == off2 + nDoubletBytes(lSeq)
        qualSpan == [off |-> off3, len |-> lSeq]
        off4 == off3 + lSeq
        r1 == [rec0 EXCEPT !.Pos = Int32(b, 4), !.MapQ = At(b, 9),
                           !.Flags = Uint16(b, 14), !.MatePos = Int32(b, 24),
                           !.TempLen = Int32(b, 28), !.Scratch = scratch,
                           !.Name = spanBytes(var, nameSpan),
                           !.Cigar = cigarWords(var, off1, nCigar)]
        l1 == [NoLayout EXCEPT !.name = nameSpan, !.cigarFrom = off1,
                               !.cigarOffset = cigarOffset,
                               !.auxCounted = [off |-> bAuxOffset - 32,
                                               len |-> Len(b) - bAuxOffset],
                               !.auxOffset = auxOffset, !.blen = blen]
        r2 == [r1 EXCEPT !.Seq = [Length |-> lSeq, Seq |-> spanBytes(var, seqSpan)]]
        l2 == [l1 EXCEPT !.seq = seqSpan]
        r3 == [r2 EXCEPT !.Qual = spanBytes(var, qualSpan)]
        l3 == [l2 EXCEPT !.qual = qualSpan]
        auxs == Slice(var, off4, blen)         \* shadowBuf[shadowOffset:blen]
        prs == parseAux(auxs, scratch.cap - off4, nAuxFields)
        r4 == [r3 EXCEPT !.AuxFields = AuxFieldsOf(auxs, prs.aa)]
        l4 == [l3 EXCEPT !.auxParsed = [off |-> off4, len |-> blen - off4],
                         !.aux = prs.aa]
    IN
    IF om >= AllVariableLengthData THEN linkRefs(r1, l1, refID, nextRefID, refs)
    ELSE IF om >= AuxTags THEN linkRefs(r2, l2, refID, nextRefID, refs)
    ELSE IF nAuxFields > 0 THEN
        IF prs.err # "nil" THEN decodeFail(prs.err)
        ELSE linkRefs(r4, l4, refID, nextRefID, refs)
    ELSE linkRefs(r3, l3, refID, nextRefID, refs)

(***************************************************************************)
(* The decoder specification: one payload is assembled from a fixed header *)
(* and a variable tail, possibly cut short, and decoded into a record the  *)
(* freelist hands out (a new one, or one a previous decode left behind).   *)
(***************************************************************************)
\* Little-endian bytes of a 32-bit (two's complement) and a 16-bit value.
LE32(v) ==
    << v % 256, (v \div 256) % 256, (v \div 65536) % 256,
       (v \div 16777216) % 256 >>
LE16(v) == << v % 256, (v \div 256) % 256 >>

\* The 32 fixed bytes of a record (the bin, bytes 10..11, is not read).
fixedBytes(refID, pos, nLen, mapQ, nCigar, flags, lSeq, nextRefID, nextPos, tLen) ==
    LE32(refID) \o LE32(pos) \o <<nLen, mapQ>> \o LE16(4680) \o LE16(nCigar)
        \o LE16(flags) \o LE32(lSeq) \o LE32(nextRefID) \o LE32(nextPos)
        \o LE32(tLen)

\* A variable tail with the declared lengths: a NUL-terminated name "ab..",
\* cigar words (k+1)M, packed bases and qualities, each range with bytes of
\* its own.
nameBytes(n) == [k \in 1..n |-> IF k = n THEN 0 ELSE 96 + k]
RECURSIVE cigarBytes(_)
cigarBytes(n) == IF n = 0 THEN <<>> ELSE cigarBytes(n - 1) \o LE32(16 * (n + 1))
seqBytes(l) == [k \in 1..((l + 1) \div 2) |-> 17 * k]
qualBytes(l) == [k \in 1..l |-> 29 + k]

\* Aux tails: none, DI:c:5, DI:Z:"4" then DS:s:2, and a field of the
\* unrecognized type '!'.
AuxTails ==
    { <<>>,
      <<68, 73, 99, 5>>,
      <<68, 73, 90, 52, 0, 68, 83, 115, 2, 0>>,
      <<88, 88, 33, 1>> }

\* Records the freelist can hand out: a new one, and one released after an
\* earlier decode (its scalars and its scratch buffer as that decode left them).
UsedRecord ==
    [ZeroRecord EXCEPT !.Name = <<113>>, !.Pos = 11, !.MapQ = 3, !.Flags = 16,
                       !.MatePos = 12, !.TempLen = 13, !.Ref = HeaderRef(0),
                       !.Qual = <<40>>, !.Seq = [Length |-> 1, Seq |-> <<16>>],
                       !.Scratch = [nil |-> FALSE, len |-> 40, cap |-> 48]]
PooledRecords == {ZeroRecord, UsedRecord}

OmitModes == {None, AuxTags, AllVariableLengthData}
RefIDs == (-2)..MaxRefs
Positions == { <<-1, -1>>, <<5, 7>> }

NoDecode == [err |-> "none", rec |-> ZeroRecord, lay |-> NoLayout, ok |-> FALSE]

\* Reader.Read after readAlignment filled the buffer: rec := GetFromFreePool()
\* and the rest of unmarshal.
DecodeRecord ==
    /\ dpc = "idle"
    /\ \E refID \in RefIDs, nextRefID \in RefIDs, pp \in Positions,
          nLen \in 0..MaxNameLen, nCigar \in 0..MaxCigar, lSeq \in 0..MaxSeqLen,
          tail \in AuxTails, cut \in 0..(MaxCut + 1), om \in OmitModes,
          n \in 1..MaxRefs, pooled \in PooledRecords :
          LET full == fixedBytes(refID, pp[1], nLen, 30, nCigar, 16, lSeq,
                                 nextRefID, pp[2], 0)
                        \o nameBytes(nLen) \o cigarBytes(nCigar)
                        \o seqBytes(lSeq) \o qualBytes(lSeq) \o tail
              b == IF cut > MaxCut THEN SubSeq(full, 1, 31)
                   ELSE SubSeq(full, 1, Len(full) - cut)
              rec0 == ResetRecord(pooled)
          IN  /\ payload' = b
              /\ nrefs' = n
              /\ omit' = om
              /\ dbase' = rec0
              /\ dres' = unmarshal(rec0, b, n, om)
    /\ dpc' = "done"
    /\ DecFrame

(***************************************************************************)
(* Flags, cigar operations and the packed sequence.                        *)
(***************************************************************************)
\* Flag bits, in the order of the record model's bit field.
Paired == 1
ProperPair == 2
Unmapped == 4
MateUnmapped == 8

\* a & b on non-negative integers.
RECURSIVE BitAnd(_, _)
BitAnd(a, b) ==
    IF a = 0 \/ b = 0 THEN 0
    ELSE (a % 2) * (b % 2) + 2 * BitAnd(a \div 2, b \div 2)

\* CigarOp packs length << 4 | op; op codes M I D N S H P = X are 0..8.
cigarOp(t, l) == l * 16 + t
cigarOpLen(co) == co \div 16
cigarOpType(co) == co % 16

\* Consumes(): M, =, X consume both; I, S the query; D, N the reference.
consumesReference(t) == IF t \in {0, 2, 3, 7, 8} THEN 1 ELSE 0
consumesQuery(t) == IF t \in {0, 1, 4, 7, 8} THEN 1 ELSE 0

\* n16Table: the byte to nibble table.  The sixteen base letters in either
\* case, '=' (61) and the digits '0'..'3' have codes; every other byte is 0xf.
n16Table(b) ==
    LET u == IF b >= 97 /\ b <= 122 THEN b - 32 ELSE b IN
    CASE u = 61 -> 0
      [] u = 48 -> 1 [] u = 49 -> 2 [] u = 50 -> 4 [] u = 51 -> 8
      [] u = 65 -> 1 [] u = 66 -> 14 [] u = 67 -> 2 [] u = 68 -> 13
      [] u = 71 -> 4 [] u = 72 -> 11 [] u = 75 -> 12 [] u = 77 -> 3
      [] u = 82 -> 5 [] u = 83 -> 6 [] u = 84 -> 8 [] u = 86 -> 7
      [] u = 87 -> 9 [] u = 89 -> 10
      [] OTHER -> 15

\* Mutant of contract: the first base of a pair goes to the low nibble.
contractLowFirst(bs) ==
    [k \in 1..((Len(bs) + 1) \div 2) |->
        n16Table(bs[2 * k - 1])
            + (IF 2 * k <= Len(bs) THEN n16Table(bs[2 * k]) * 16 ELSE 0)]

\* contract: two bases per byte, the first in the high nibble; the last
\* byte of an odd-length sequence keeps a zero low nibble.
contract(sq) ==
    [k \in 1..((Len(sq) + 1) \div 2) |->
        n16Table(sq[2 * k - 1]) * 16
            + (IF 2 * k <= Len(sq) THEN n16Table(sq[2 * k]) ELSE 0)]

NewSeq(sq) == [Length |-> Len(sq), Seq |-> contract(sq)]

(***************************************************************************)
(* Record helpers: End, Len, IsValidRecord.                                *)
(***************************************************************************)
max(a, b) == IF a < b THEN b ELSE a

RECURSIVE endLoop(_, _, _, _)
endLoop(cig, k, pos, end) ==
    IF k > Len(cig) THEN end
    ELSE LET p == pos + cigarOpLen(cig[k]) * consumesReference(cigarOpType(cig[k]))
         IN  endLoop(cig, k + 1, p, max(end, p))

\* Mutant of End: the query-consumed length is accumulated.
RECURSIVE endQueryLoop(_, _, _, _)
endQueryLoop(cig, k, pos, end) ==
    IF k > Len(cig) THEN end
    ELSE LET p == pos + cigarOpLen(cig[k]) * consumesQuery(cigarOpType(cig[k]))
         IN  endQueryLoop(cig, k + 1, p, max(end, p))

EndByQuery(r) ==
    IF BitAnd(r.Flags, Unmapped) # 0 \/ Len(r.Cigar) = 0 THEN r.Pos + 1
    ELSE endQueryLoop(r.Cigar, 1, r.Pos, r.Pos)

\* Record.End
End(r) ==
    IF BitAnd(r.Flags, Unmapped) # 0 \/ Len(r.Cigar) = 0 THEN r.Pos + 1
    ELSE endLoop(r.Cigar, 1, r.Pos, r.Pos)

\* Record.Start
Start(r) == r.Pos

\* Record.Len
RecordLen(r) == End(r) - Start(r)

\* IsValidRecord
IsValidRecord(r) ==
    IF (r.Ref.nil \/ r.Pos = -1) /\ BitAnd(r.Flags, Unmapped) = 0 THEN FALSE
    ELSE IF BitAnd(r.Flags, Paired) # 0 /\ (r.MateRef.nil \/ r.MatePos = -1)
            /\ BitAnd(r.Flags, MateUnmapped) = 0 THEN FALSE
    ELSE IF BitAnd(r.Flags, Unmapped + ProperPair) = Unmapped + ProperPair THEN FALSE
    ELSE IF BitAnd(r.Flags, Paired + MateUnmapped + ProperPair)
               = Paired + MateUnmapped + ProperPair THEN FALSE
    ELSE IF Len(r.Qual) # 0 /\ r.Seq.Length # Len(r.Qual) THEN FALSE
    ELSE IF RecordLen(r) < 0
            \/ (r.Seq.Length # 0 /\ r.Seq.Length # RecordLen(r)) THEN FALSE
    ELSE TRUE

(***************************************************************************)
(* NewRecord.                                                              *)
(***************************************************************************)
\* The range checks of NewRecord's first test: positions from -1 up, template
\* lengths and lengths within 32 bits.
validPos(p) == -1 <= p /\ p <= 2147483646
validTmpltLen(t) == -2147483647 <= t /\ t <= 2147483647
validLen(l) == 0 <= l /\ l <= 2147483647

\* NewRecord's arguments; qualNil tells a nil qual from an empty one.
NewRecordError(a) ==
    IF ~(validPos(a.p) /\ validPos(a.mPos) /\ validTmpltLen(a.tLen)
         /\ validLen(Len(a.seq)) /\ (a.qualNil \/ validLen(Len(a.qual))))
    THEN "range"
    ELSE IF Len(a.name) = 0 \/ Len(a.name) > 254 THEN "name"
    ELSE IF ~a.qualNil /\ Len(a.qual) # Len(a.seq) THEN "qual"
    ELSE IF ~a.ref.nil /\ a.ref.id < 0 THEN "ref"
    ELSE IF a.ref.nil /\ a.p # -1 THEN "pos"
    ELSE IF ~a.mRef.nil /\ a.mRef.id < 0 THEN "materef"
    ELSE IF a.mRef.nil /\ a.mPos # -1 THEN "matepos"
    ELSE "nil"

\* The assignments of NewRecord to r := GetFromFreePool().
NewRecordFill(r, a) ==
    [r EXCEPT !.Name = a.name, !.Ref = a.ref, !.Pos = a.p, !.MapQ = a.mapQ,
              !.Cigar = a.co, !.Flags = 0, !.MateRef = a.mRef,
              !.MatePos = a.mPos, !.TempLen = a.tLen, !.Seq = NewSeq(a.seq),
              !.Qual = a.qual, !.AuxFields = a.aux]

(***************************************************************************)
(* The freelist specification: records are taken from the freelist         *)
(* directly, by NewRecord or by the decoder, and released to it.           *)
(***************************************************************************)
\* recordPool.Get(): any pooled record, or New() when the pool is empty.
\* The result is <<record, rest of the pool>>.
PoolGets(pl) ==
    IF pl = <<>> THEN { <<ZeroRecord, <<>> >> }
    ELSE { << pl[k], SubSeq(pl, 1, k - 1) \o SubSeq(pl, k + 1, Len(pl)) >> :
             k \in 1..Len(pl) }

\* recordPool.Put(r): the pool is a bounded cache, oversupply is dropped.
PoolPuts(pl, r) == IF Len(pl) < MaxPool THEN Append(pl, r) ELSE pl

\* Arguments handed to NewRecord.
PlacedRef == HeaderRef(0)
FakeRef == [nil |-> FALSE, id |-> -1]
NewRecordArgs ==
    { [name |-> nm, ref |-> rp[1], p |-> rp[2], mRef |-> mp[1], mPos |-> mp[2],
       tLen |-> 9, mapQ |-> 30, co |-> << cigarOp(0, 2) >>,
       seq |-> sq[1], qual |-> sq[2], qualNil |-> sq[3], aux |-> <<>>] :
        nm \in { <<>>, <<114>> },
        rp \in { <<NilRef, -1>>, <<NilRef, 5>>, <<PlacedRef, 5>>, <<FakeRef, 5>>,
                 <<PlacedRef, -2>> },
        mp \in { <<NilRef, -1>>, <<NilRef, 7>>, <<PlacedRef, 7>> },
        sq \in { << <<>>, <<>>, TRUE >>, << <<65, 67>>, <<30, 31>>, FALSE >>,
                 << <<65, 67>>, <<30>>, FALSE >> } }

\* Payloads handed to the decoder here: the minimal unmapped record "*", a
\* placed record with a cigar op, two bases and an aux field, and a payload
\* of 31 bytes.
PoolPayloads ==
    { fixedBytes(-1, -1, 2, 0, 0, 4, 0, -1, -1, 0) \o <<42, 0>>,
      fixedBytes(0, 99, 3, 30, 1, 16, 2, 0, 120, 50) \o nameBytes(3)
          \o cigarBytes(1) \o seqBytes(2) \o qualBytes(2) \o <<68, 73, 99, 5>>,
      SubSeq(fixedBytes(0, 99, 3, 30, 1, 16, 2, 0, 120, 50), 1, 31) }

\* A direct GetFromFreePool call.
PoolGet ==
    /\ lpc = "none"
    /\ \E g \in PoolGets(pool) :
          /\ got' = ResetRecord(g[1])
          /\ held' = ResetRecord(g[1])
          /\ pool' = g[2]
    /\ lpc' = "got"
    /\ PoolFrame

\* NewRecord: the checks, then GetFromFreePool and the assignments.
PoolNewRecord ==
    /\ lpc = "none"
    /\ \E a \in NewRecordArgs, g \in PoolGets(pool) :
          /\ NewRecordError(a) = "nil"
          /\ got' = ResetRecord(g[1])
          /\ held' = NewRecordFill(ResetRecord(g[1]), a)
          /\ pool' = g[2]
    /\ lpc' = "new"
    /\ PoolFrame

\* Reader.Read: unmarshal takes a record from the freelist first; when it
\* fails the record is neither returned nor released.
PoolUnmarshal ==
    /\ lpc = "none"
    /\ \E b \in PoolPayloads, om \in OmitModes, g \in PoolGets(pool) :
          LET d == unmarshal(ResetRecord(g[1]), b, 1, om) IN
          /\ got' = ResetRecord(g[1])
          /\ pool' = g[2]
          /\ IF d.ok THEN held' = d.rec /\ lpc' = "decoded"
             ELSE held' = ZeroRecord /\ lpc' = "none"
    /\ PoolFrame

\* PutInFreePool(held)
PoolPut ==
    /\ lpc # "none"
    /\ pool' = PoolPuts(pool, held)
    /\ held' = ZeroRecord
    /\ lpc' = "none"
    /\ UNCHANGED got
    /\ PoolFrame

(***************************************************************************)
(* The record specification: End, Len and IsValidRecord on a record.       *)
(***************************************************************************)
\* Cigar operations the records are built from: 2M, 1I, 3D, 1S, 1H.
CigarOps ==
    { cigarOp(0, 2), cigarOp(1, 1), cigarOp(2, 3), cigarOp(4, 1), cigarOp(5, 1) }

RECURSIVE CigarsUpTo(_)
CigarsUpTo(n) ==
    IF n = 0 THEN { <<>> }
    ELSE CigarsUpTo(n - 1)
           \cup { Append(c, o) : c \in { x \in CigarsUpTo(n - 1) : Len(x) = n - 1 },
                                 o \in CigarOps }

NoExam == [end |-> 0, len |-> 0, valid |-> FALSE]

Examine ==
    /\ rpc = "idle"
    /\ \E fl \in 0..15, rp \in { <<NilRef, -1>>, <<PlacedRef, -1>>, <<PlacedRef, 5>> },
          mp \in { <<NilRef, -1>>, <<PlacedRef, 7>> },
          cg \in CigarsUpTo(MaxCigarOps), sl \in 0..(MaxSeqLen + 1),
          ql \in 0..(MaxSeqLen + 1) :
          LET r == [ZeroRecord EXCEPT !.Name = <<114>>, !.Flags = fl,
                                      !.Ref = rp[1], !.Pos = rp[2],
                                      !.MateRef = mp[1], !.MatePos = mp[2],
                                      !.Cigar = cg,
                                      !.Seq = NewSeq([k \in 1..sl |-> 65]),
                                      !.Qual = [k \in 1..ql |-> 30]]
          IN  /\ rin' = r
              /\ rout' = [end |-> End(r), len |-> RecordLen(r),
                          valid |-> IsValidRecord(r)]
    /\ rpc' = "done"
    /\ RecFrame

(***************************************************************************)
(* The reader specification: Reader.Read, SetChunk and the Iterator.        *)
(***************************************************************************)
maxBAMRecordSize == 16777215

\* A bgzf.Offset.  Record k of the stream starts at File k, Block 0; after a
\* read that stopped inside record k the reader stands at File k, Block 1.
Offset(f, b) == [File |-> f, Block |-> b]

vOffset(o) == o.File * 65536 + o.Block

\* A *bgzf.Chunk; seekErr is what Reader.Seek(Begin) answers for it.
NilChunk == [nil |-> TRUE, Begin |-> Offset(0, 0), End |-> Offset(0, 0), seekErr |-> "nil"]
Chunk(b, e, se) == [nil |-> FALSE, Begin |-> Offset(b, 0), End |-> Offset(e, 0), seekErr |-> se]

\* A *sam.Record as Read and Iterator.Record hand it out.
NoRecord == [nil |-> TRUE, rec |-> ZeroRecord]
SomeRecord(r) == [nil |-> FALSE, rec |-> r]

\* Mutant of readAlignment: a block size equal to the limit is refused.
readAlignmentRefuseLimit(present, sizeBuf, body) ==
    IF ~present THEN [err |-> "EOF", size |-> -1, buf |-> <<>>]
    ELSE LET size == Uint32(sizeBuf, 0) IN
         IF size >= maxBAMRecordSize THEN [err |-> "toolarge", size |-> size, buf |-> <<>>]
         ELSE IF Len(body) < size
              THEN [err |-> IF Len(body) = 0 THEN "EOF" ELSE "unexpectedEOF",
                    size |-> size, buf |-> <<>>]
         ELSE [err |-> "nil", size |-> size, buf |-> body]

\* readAlignment: present tells whether the stream still holds the four
\* bytes of a block size; body is what the stream holds after them.
\* io.ReadFull answers io.EOF when it read nothing and ErrUnexpectedEOF when
\* it read less than asked.
readAlignment(present, sizeBuf, body) ==
    IF ~present THEN [err |-> "EOF", size |-> -1, buf |-> <<>>]
    ELSE LET size == Uint32(sizeBuf, 0) IN
         IF size > maxBAMRecordSize THEN [err |-> "toolarge", size |-> size, buf |-> <<>>]
         ELSE IF Len(body) < size
              THEN [err |-> IF Len(body) = 0 THEN "EOF" ELSE "unexpectedEOF",
                    size |-> size, buf |-> <<>>]
         ELSE [err |-> "nil", size |-> size, buf |-> body]

\* The rest of Read once readAlignment answered ra for record k: on a nil
\* error the buffer goes to unmarshal.
readDecoded(d, k, size) ==
    [rec |-> IF d.ok THEN SomeRecord(d.rec) ELSE NoRecord,
     err |-> d.err, off |-> Offset(k + 1, 0), size |-> size]

readAligned(ra, k, present, off) ==
    IF ra.err # "nil"
    THEN [rec |-> NoRecord, err |-> ra.err,
          off |-> IF present THEN Offset(k, 1) ELSE off, size |-> ra.size]
    ELSE readDecoded(unmarshal(ResetRecord(ZeroRecord), ra.buf, 1, None), k, ra.size)

\* Reader.Read with the reader at off and limited to chunk c.
Read(strm, off, c) ==
    IF ~c.nil /\ vOffset(off) >= vOffset(c.End)
    THEN [rec |-> NoRecord, err |-> "EOF", off |-> off, size |-> -1]
    ELSE IF off.File < Len(strm)
         THEN readAligned(readAlignment(TRUE, strm[off.File + 1].sizeBuf,
                                        strm[off.File + 1].body),
                          off.File, TRUE, off)
         ELSE readAligned(readAlignment(FALSE, <<>>, <<>>), off.File, FALSE, off)

\* Reader.SetChunk(nc)
SetChunk(off, c, nc) ==
    IF ~nc.nil /\ nc.seekErr # "nil" THEN [err |-> nc.seekErr, off |-> off, c |-> c]
    ELSE [err |-> "nil", off |-> IF nc.nil THEN off ELSE nc.Begin, c |-> nc]

\* One entry of the call log.
ReadEvent(idx, from, r) ==
    [op |-> "read", idx |-> idx, from |-> from, to |-> r.off, size |-> r.size,
     err |-> r.err, rec |-> r.rec]
SeekEvent(idx, from, sc) ==
    [op |-> "seek", idx |-> idx, from |-> from, to |-> sc.off, size |-> -1,
     err |-> sc.err, rec |-> NoRecord]

\* The iterator, with the Reader's fields carried along, after r.Read()
\* answered r and after r.SetChunk(&i.chunks[0]) answered sc.
afterRead(it, r) ==
    [it EXCEPT !.rec = r.rec, !.err = r.err, !.off = r.off,
               !.log = Append(@, ReadEvent(it.n - Len(it.chunks), it.off, r))]

afterSetChunk(it, sc) ==
    [it EXCEPT !.err = sc.err, !.off = sc.off, !.c = sc.c, !.chunks = Tail(@),
               !.log = Append(@, SeekEvent(it.n - Len(it.chunks) + 1, it.off, sc))]

\* Mutant of iterNext: the next chunk is taken after any failed Read.
RECURSIVE iterNextOnAnyError(_)
iterAdvanceOnAnyError(it) ==
    IF Len(it.chunks) # 0 /\ it.err # "nil"
    THEN iterNextOnAnyError(afterSetChunk(it, SetChunk(it.off, it.c, Head(it.chunks))))
    ELSE it

iterNextOnAnyError(it) ==
    IF it.err # "nil" THEN it
    ELSE iterAdvanceOnAnyError(afterRead(it, Read(it.strm, it.off, it.c)))

\* Iterator.Next: the Read, and on io.EOF with chunks left the SetChunk and
\* the call of Next again.
RECURSIVE iterNext(_)
iterAdvance(it) ==
    IF Len(it.chunks) # 0 /\ it.err = "EOF"
    THEN iterNext(afterSetChunk(it, SetChunk(it.off, it.c, Head(it.chunks))))
    ELSE it

iterNext(it) ==
    IF it.err # "nil" THEN it
    ELSE iterAdvance(afterRead(it, Read(it.strm, it.off, it.c)))

\* Iterator.Error
IterError(e) == IF e = "EOF" THEN "nil" ELSE e

\* Stream records: the minimal unmapped record "*", a placed record, a
\* payload of 31 bytes, a block size of 16 MiB, of 16 MiB + 1, and a block
\* size of 16 MiB - 1 whose body the stream ends in.
StreamPayloads ==
    { fixedBytes(-1, -1, 2, 0, 0, 4, 0, -1, -1, 0) \o <<42, 0>>,
      fixedBytes(0, 99, 3, 30, 1, 16, 2, 0, 120, 50) \o nameBytes(3)
          \o cigarBytes(1) \o seqBytes(2) \o qualBytes(2) \o <<68, 73, 99, 5>>,
      SubSeq(fixedBytes(0, 99, 3, 30, 1, 16, 2, 0, 120, 50), 1, 31) }

StreamEntries ==
    { [sizeBuf |-> LE32(Len(b)), body |-> b] : b \in StreamPayloads }
      \cup { [sizeBuf |-> <<0, 0, 0, 1>>, body |-> <<>>],
             [sizeBuf |-> <<1, 0, 0, 1>>, body |-> <<7>>],
             [sizeBuf |-> <<255, 255, 255, 0>>, body |-> <<7>>] }

\* An entry the stream can go on after: its body is whole, or its block size
\* was refused.
EntryWhole(e) ==
    Uint32(e.sizeBuf, 0) > maxBAMRecordSize \/ Len(e.body) = Uint32(e.sizeBuf, 0)

RECURSIVE SeqsUpTo(_, _)
SeqsUpTo(S, n) ==
    IF n = 0 THEN { <<>> }
    ELSE SeqsUpTo(S, n - 1)
           \cup { Append(q, x) : q \in { y \in SeqsUpTo(S, n - 1) : Len(y) = n - 1 },
                                 x \in S }

Streams ==
    { q \in SeqsUpTo(StreamEntries, MaxStream) :
        \A k \in 1..(Len(q) - 1) : EntryWhole(q[k]) }

\* Chunks over a stream of n records: every non-empty range of records, an
\* empty chunk, and a chunk the reader cannot seek to.
ChunksOf(n) ==
    { Chunk(p[1], p[2], "nil") : p \in { q \in (0..n) \X (0..n) : q[1] < q[2] } }
      \cup { Chunk(0, 0, "nil"), Chunk(0, n, "seek") }

\* NewReader over a stream: the header is read, the reader stands at the
\* first record.
NewReader ==
    /\ ipc = "init"
    /\ \E q \in Streams : stream' = q
    /\ roff' = Offset(0, 0)
    /\ rc' = NilChunk
    /\ ipc' = "open"
    /\ UNCHANGED <<itChunks, itErr, itRec, chunks0, ilog>>
    /\ ReaderFrame

\* NewIterator(r, chunks)
NewIterator ==
    /\ ipc = "open"
    /\ \E cs \in SeqsUpTo(ChunksOf(Len(stream)), MaxChunks) :
          /\ chunks0' = cs
          /\ itRec' = NoRecord
          /\ IF Len(cs) = 0
             THEN /\ itErr' = "EOF"
                  /\ itChunks' = <<>>
                  /\ ipc' = "iter"
                  /\ UNCHANGED <<roff, rc, ilog>>
             ELSE \E sc \in { SetChunk(roff, rc, cs[1]) } :
                  /\ roff' = sc.off
                  /\ rc' = sc.c
                  /\ ilog' = Append(ilog, SeekEvent(1, roff, sc))
                  /\ itErr' = sc.err
                  /\ itChunks' = IF sc.err # "nil" THEN <<>> ELSE Tail(cs)
                  /\ ipc' = IF sc.err # "nil" THEN "failed" ELSE "iter"
    /\ UNCHANGED stream
    /\ ReaderFrame

\* Iterator.Next
Next ==
    /\ ipc = "iter"
    /\ itErr = "nil"
    /\ \E it \in { iterNext([strm |-> stream, off |-> roff, c |-> rc,
                             chunks |-> itChunks, err |-> itErr, rec |-> itRec,
                             log |-> ilog, n |-> Len(chunks0)]) } :
           /\ roff' = it.off
           /\ rc' = it.c
           /\ itChunks' = it.chunks
           /\ itErr' = it.err
           /\ itRec' = it.rec
           /\ ilog' = it.log
    /\ UNCHANGED <<stream, chunks0, ipc>>
    /\ ReaderFrame

\* Iterator.Close
Close ==
    /\ ipc = "iter"
    /\ rc' = SetChunk(roff, rc, NilChunk).c
    /\ ipc' = "closed"
    /\ UNCHANGED <<stream, roff, itChunks, itErr, itRec, chunks0, ilog>>
    /\ ReaderFrame

(***************************************************************************)
(* Aux values and the integer accessors of a record.                       *)
(***************************************************************************)
\* The tags of the pipeline helpers: DI, DS, DL, LI, LS.
bagIDTag == <<68, 73>>
bagSizeTag == <<68, 83>>
libraryBagSizeTag == <<68, 76>>
linearBagIDTag == <<76, 73>>
linearBagSizeTag == <<76, 83>>

Int8(x) == IF x >= 128 THEN x - 256 ELSE x
Int16(x) == IF x >= 32768 THEN x - 65536 ELSE x

\* Aux.Value(): the field's value in the Go type of its type byte.  A is a
\* byte, which is the type uint8.
auxValue(f) ==
    LET t == f[3] IN
    CASE t = 99  -> [type |-> "int8", val |-> Int8(f[4])]
      [] t = 67  -> [type |-> "uint8", val |-> f[4]]
      [] t = 115 -> [type |-> "int16", val |-> Int16(Uint16(f, 3))]
      [] t = 83  -> [type |-> "uint16", val |-> Uint16(f, 3)]
      [] t = 105 -> [type |-> "int32", val |-> Int32(f, 3)]
      [] t = 73  -> [type |-> "uint32", val |-> Uint32(f, 3)]
      [] t = 65  -> [type |-> "uint8", val |-> f[4]]
      [] t = 102 -> [type |-> "float32", val |-> SubSeq(f, 4, Len(f))]
      [] t = 90  -> [type |-> "string", val |-> SubSeq(f, 4, Len(f))]
      [] t = 72  -> [type |-> "[]byte", val |-> SubSeq(f, 4, Len(f))]
      [] OTHER   -> [type |-> "nil", val |-> 0]

\* strconv.ParseInt(s, 10, 64) on short strings: an optional sign, then one
\* or more decimal digits.
RECURSIVE digitsValue(_, _)
digitsValue(ds, acc) ==
    IF ds = <<>> THEN acc ELSE digitsValue(Tail(ds), 10 * acc + (Head(ds) - 48))

ParseInt(str) ==
    LET signed == Len(str) > 0 /\ str[1] \in {43, 45}
        ds == IF signed THEN Tail(str) ELSE str
    IN  IF Len(ds) = 0 \/ \E k \in 1..Len(ds) : ds[k] < 48 \/ ds[k] > 57
        THEN [val |-> 0, err |-> "syntax"]
        ELSE [val |-> IF signed /\ str[1] = 45 THEN 0 - digitsValue(ds, 0)
                      ELSE digitsValue(ds, 0),
              err |-> "nil"]

\* The type switches of auxIntValue and auxInt64Value on v = aux.Value().
intSwitch(v) ==
    IF v.type \in {"uint8", "int8", "int16", "uint16", "int32"}
    THEN [val |-> v.val, found |-> TRUE, err |-> "nil"]
    ELSE [val |-> -1, found |-> FALSE, err |-> "type"]

parsedString(pr) ==
    IF pr.err # "nil" THEN [val |-> -1, found |-> FALSE, err |-> pr.err]
    ELSE [val |-> pr.val, found |-> TRUE, err |-> "nil"]

int64Switch(v) ==
    IF v.type \in {"uint8", "int8", "int16", "uint16", "int32"}
    THEN [val |-> v.val, found |-> TRUE, err |-> "nil"]
    ELSE IF v.type = "string" THEN parsedString(ParseInt(v.val))
    ELSE [val |-> -1, found |-> FALSE, err |-> "type"]

uniqueInt(g) ==
    IF g.err # "nil" \/ g.aux = NilAux THEN [val |-> -1, found |-> FALSE, err |-> g.err]
    ELSE intSwitch(auxValue(g.aux))

uniqueInt64(g) ==
    IF g.err # "nil" \/ g.aux = NilAux THEN [val |-> -1, found |-> FALSE, err |-> g.err]
    ELSE int64Switch(auxValue(g.aux))

\* Record.auxIntValue and Record.auxInt64Value on the record's AuxFields.
auxIntValue(fs, tag) == uniqueInt(GetUnique(fs, tag))
auxInt64Value(fs, tag) == uniqueInt64(GetUnique(fs, tag))

\* The helpers: a found value at or below the bound is an error.
helperResult(a, rejected) ==
    IF a.found /\ rejected THEN [val |-> -1, found |-> FALSE, err |-> "range"]
    ELSE [val |-> a.val, found |-> FALSE, err |-> a.err]

bagIDOf(a) == helperResult(a, a.val < 0)
bagSizeOf(a) == helperResult(a, a.val <= 0)
libraryBagSizeOf(a) == helperResult(a, a.val < 1)

BagID(fs) == bagIDOf(auxInt64Value(fs, bagIDTag))
BagSize(fs) == bagSizeOf(auxIntValue(fs, bagSizeTag))
LibraryBagSize(fs) == libraryBagSizeOf(auxIntValue(fs, libraryBagSizeTag))
LinearBagID(fs) == bagIDOf(auxInt64Value(fs, linearBagIDTag))
LinearBagSize(fs) == bagSizeOf(auxIntValue(fs, linearBagSizeTag))

(***************************************************************************)
(* The tag specification: an accessor is called on a record's aux fields.  *)
(***************************************************************************)
\* Type and payload of the fields: c:-1, c:5, C:0, C:200, s:-2, S:1, i:7,
\* I:7, A:'5', f:1.0, Z:"42", Z:"-3", Z:"0", Z:"x", Z:"", H:"1F".
FieldBodies ==
    { <<99, 255>>, <<99, 5>>, <<67, 0>>, <<67, 200>>, <<115, 254, 255>>,
      <<83, 1, 0>>, <<105, 7, 0, 0, 0>>, <<73, 7, 0, 0, 0>>, <<65, 53>>,
      <<102, 0, 0, 128, 63>>, <<90, 52, 50>>, <<90, 45, 51>>, <<90, 48>>,
      <<90, 120>>, <<90>>, <<72, 49, 70>> }

\* The fields a record may hold when tag is looked up: each body under the
\* tag, and XX:c:5.
FieldsFor(tag) == { tag \o b : b \in FieldBodies } \cup { <<88, 88, 99, 5>> }

AuxLists(tag) == SeqsUpTo(FieldsFor(tag), MaxTagFields)

NoTagResult == [val |-> 0, found |-> FALSE, err |-> "none"]

CallAuxIntValue ==
    /\ tcall = "none"
    /\ \E fs \in AuxLists(bagSizeTag) :
          /\ tfields' = fs
          /\ tres' = auxIntValue(fs, bagSizeTag)
    /\ tcall' = "auxIntValue"
    /\ TagFrame

CallAuxInt64Value ==
    /\ tcall = "none"
    /\ \E fs \in AuxLists(bagIDTag) :
          /\ tfields' = fs
          /\ tres' = auxInt64Value(fs, bagIDTag)
    /\ tcall' = "auxInt64Value"
    /\ TagFrame

CallBagID ==
    /\ tcall = "none"
    /\ \E fs \in AuxLists(bagIDTag) :
          /\ tfields' = fs
          /\ tres' = BagID(fs)
    /\ tcall' = "BagID"
    /\ TagFrame

CallBagSize ==
    /\ tcall = "none"
    /\ \E fs \in AuxLists(bagSizeTag) :
          /\ tfields' = fs
          /\ tres' = BagSize(fs)
    /\ tcall' = "BagSize"
    /\ TagFrame

CallLibraryBagSize ==
    /\ tcall = "none"
    /\ \E fs \in AuxLists(libraryBagSizeTag) :
          /\ tfields' = fs
          /\ tres' = LibraryBagSize(fs)
    /\ tcall' = "LibraryBagSize"
    /\ TagFrame

CallLinearBagID ==
    /\ tcall = "none"
    /\ \E fs \in AuxLists(linearBagIDTag) :
          /\ tfields' = fs
          /\ tres' = LinearBagID(fs)
    /\ tcall' = "LinearBagID"
    /\ TagFrame

CallLinearBagSize ==
    /\ tcall = "none"
    /\ \E fs \in AuxLists(linearBagSizeTag) :
          /\ tfields' = fs
          /\ tres' = LinearBagSize(fs)
    /\ tcall' = "LinearBagSize"
    /\ TagFrame

(***************************************************************************)
(* The sequence specification: NewSeq, Expand, Base and BaseChar.          *)
(***************************************************************************)
\* n16TableRev: the nibble to letter table "=ACMGRSVTWYHKDBN".
n16TableRev(c) ==
    <<61, 65, 67, 77, 71, 82, 83, 86, 84, 87, 89, 72, 75, 68, 66, 78>>[c + 1]

\* Mutant of Base: the nibbles of a byte are read in the other order.
BaseLowFirst(ns, pos) ==
    IF pos % 2 = 0 THEN ns.Seq[(pos \div 2) + 1] % 16
    ELSE ns.Seq[(pos \div 2) + 1] \div 16

\* Seq.Base(pos)
Base(ns, pos) ==
    IF pos % 2 = 0 THEN ns.Seq[(pos \div 2) + 1] \div 16
    ELSE ns.Seq[(pos \div 2) + 1] % 16

\* Seq.BaseChar(pos)
BaseChar(ns, pos) == n16TableRev(Base(ns, pos))

\* Seq.Expand(): UnpackAndReplaceSeq writes the letter of each of the first
\* Length nibbles, high nibble first.
Expand(ns) ==
    [i \in 1..ns.Length |->
        n16TableRev(IF i % 2 = 1 THEN ns.Seq[(i + 1) \div 2] \div 16
                    ELSE ns.Seq[i \div 2] % 16)]

\* Bytes of the sequences: the sixteen letters in upper and in lower case,
\* the digits '0' to '4', 'X', 0 and 255.
BaseLetters == {61, 65, 67, 77, 71, 82, 83, 86, 84, 87, 89, 72, 75, 68, 66, 78}
SeqBytes ==
    BaseLetters \cup { b + 32 : b \in BaseLetters \ {61} } \cup {48, 49, 50, 51, 52, 88, 0, 255}

\* Bytes that lengthen a sequence beyond two bases: 'A', 't', 'X'.
TailBytes == {65, 116, 88}

SeqInputs ==
    SeqsUpTo(SeqBytes, 2)
      \cup { h \o t : h \in { x \in SeqsUpTo(SeqBytes, 2) : Len(x) = 2 },
                      t \in SeqsUpTo(TailBytes, MaxSeqTail) }

NoPack == [seq |-> EmptySeq, expand |-> <<>>, chars |-> <<>>, bases |-> <<>>]

packed(ns) ==
    [seq |-> ns, expand |-> Expand(ns),
     chars |-> [i \in 1..ns.Length |-> BaseChar(ns, i - 1)],
     bases |-> [i \in 1..ns.Length |-> Base(ns, i - 1)]]

\* NewSeq(s), then Expand() and Base(i), BaseChar(i) for every index.
PackSeq ==
    /\ spc = "idle"
    /\ \E bs \in SeqInputs :
          /\ sbytes' = bs
          /\ sres' = packed(NewSeq(bs))
    /\ spc' = "done"
    /\ SeqFrame

(***************************************************************************)
(* The text specification: UnmarshalSAM, MarshalSAM and formatFlags.       *)
(* Text is a sequence of bytes; a tab is 9, '*' is 42, '=' is 61.          *)
(***************************************************************************)
\* The flag bits of the mate and of the read's place in its template.
MateReverse == 32
Read1 == 64
Read2 == 128

\* a | b on non-negative integers.
BitOr(a, b) == a + b - BitAnd(a, b)

\* Flag format constants.
FlagDecimal == 0
FlagHex == 1
FlagString == 2

\* fmt's %d of a non-negative integer, and of any integer.
RECURSIVE utoa(_)
utoa(n) ==
    IF n < 10 THEN <<48 + n>> ELSE Append(utoa(n \div 10), 48 + (n % 10))
itoa(n) == IF n < 0 THEN <<45>> \o utoa(0 - n) ELSE utoa(n)

\* fmt's %x of a non-negative integer.
RECURSIVE xtoa(_)
xtoa(n) ==
    LET d == n % 16
        c == IF d < 10 THEN 48 + d ELSE 87 + d
    IN  IF n < 16 THEN <<c>> ELSE Append(xtoa(n \div 16), c)

\* The letters of the String flag format, "pPuUrR12sfdS".
flagLetters == <<112, 80, 117, 85, 114, 82, 49, 50, 115, 102, 100, 83>>

\* formatFlags' constant pairedMask.
pairedMask ==
    BitOr(BitOr(BitOr(BitOr(BitOr(ProperPair, MateUnmapped), MateReverse),
                      MateReverse), Read1), Read2)

\* formatFlags' loop over the letters: letter i is appended when bit i is set.
RECURSIVE flagLoop(_, _, _)
flagLoop(f, i, b) ==
    IF i >= Len(flagLetters) THEN b
    ELSE flagLoop(f, i + 1,
                  IF BitAnd(f, 2 ^ i) # 0 THEN Append(b, flagLetters[i + 1])
                  ELSE b)

\* Mutant of formatFlags: the String format leaves the mate bits of an
\* unpaired read in place.
formatFlagsUnmasked(f, format) ==
    CASE format = FlagDecimal -> [out |-> utoa(f), panic |-> FALSE]
      [] format = FlagHex -> [out |-> <<48, 120>> \o xtoa(f), panic |-> FALSE]
      [] format = FlagString -> [out |-> flagLoop(f, 0, <<>>), panic |-> FALSE]
      [] OTHER -> [out |-> <<>>, panic |-> TRUE]

\* formatFlags(f, format), as fmt's %v prints its result.
formatFlags(f, format) ==
    CASE format = FlagDecimal -> [out |-> utoa(f), panic |-> FALSE]
      [] format = FlagHex -> [out |-> <<48, 120>> \o xtoa(f), panic |-> FALSE]
      [] format = FlagString ->
            [out |-> flagLoop(IF BitAnd(f, 1) = 0
                              THEN f - BitAnd(f, pairedMask) ELSE f, 0, <<>>),
             panic |-> FALSE]
      [] OTHER -> [out |-> <<>>, panic |-> TRUE]

\* bytes.Split(b, []byte{'\t'})
RECURSIVE splitLoop(_, _, _)
splitLoop(b, cur, out) ==
    IF b = <<>> THEN Append(out, cur)
    ELSE IF Head(b) = 9 THEN splitLoop(Tail(b), <<>>, Append(out, cur))
    ELSE splitLoop(Tail(b), Append(cur, Head(b)), out)

Split(b) == splitLoop(b, <<>>, <<>>)

\* The value of a digit of strconv.ParseUint; 99 for a byte that is none.
digitOf(c) ==
    IF 48 <= c /\ c <= 57 THEN c - 48
    ELSE IF 97 <= c /\ c <= 122 THEN c - 87
    ELSE IF 65 <= c /\ c <= 90 THEN c - 55
    ELSE 99

RECURSIVE uintLoop(_, _, _)
uintLoop(ds, base, acc) ==
    IF ds = <<>> THEN acc
    ELSE uintLoop(Tail(ds), base, acc * base + digitOf(Head(ds)))

\* strconv.ParseUint(s, base, bitSize) for base 0 and base 10, on short
\* strings without underscores: base 0 takes the base from the prefix 0x,
\* 0b, 0o or 0.
ParseUint(s, base, bitSize) ==
    LET lower2 == IF Len(s) >= 3 THEN s[2] ELSE 0
        pre == base = 0 /\ Len(s) >= 1 /\ s[1] = 48
        b == IF ~pre THEN (IF base = 0 THEN 10 ELSE base)
             ELSE IF lower2 \in {120, 88} THEN 16
             ELSE IF lower2 \in {98, 66} THEN 2
             ELSE 8
        ds == IF ~pre THEN s
              ELSE IF lower2 \in {120, 88, 98, 66, 111, 79} THEN SubSeq(s, 3, Len(s))
              ELSE Tail(s)
    IN  IF s = <<>> \/ \E k \in 1..Len(ds) : digitOf(ds[k]) >= b
        THEN [val |-> 0, err |-> "syntax"]
        ELSE IF uintLoop(ds, b, 0) >= 2 ^ bitSize
        THEN [val |-> 2 ^ bitSize - 1, err |-> "range"]
        ELSE [val |-> uintLoop(ds, b, 0), err |-> "nil"]

\* strconv.Atoi(s)
Atoi(s) == ParseInt(s)

\* A *Header: nil, or a header with its references' names; the reference at
\* index k has id k and is the object at address k + 1.
NoHeader == [nil |-> TRUE, refs |-> <<>>]
SamHeader == [nil |-> FALSE, refs |-> << <<99>>, <<100>> >>]

\* A *Reference with its name and the address of the object (0 for nil):
\* Record.Equal and formatMate compare addresses.
SamNilRef == [nil |-> TRUE, id |-> 0, name |-> <<>>, ptr |-> 0]

\* The address of the first Reference that referenceForName allocates.
FakeBase == 100

\* (*Reference).Name(): "*" for a nil reference.
refName(ref) == IF ref.nil THEN <<42>> ELSE ref.name

\* referenceForName(h, name); heap counts the references allocated before.
referenceForName(h, name, heap) ==
    IF name = <<42>> THEN [ref |-> SamNilRef, err |-> "nil", heap |-> heap]
    ELSE IF h.nil
    THEN [ref |-> [nil |-> FALSE, id |-> -1, name |-> name,
                   ptr |-> FakeBase + heap],
          err |-> "nil", heap |-> heap + 1]
    ELSE IF \E k \in 1..Len(h.refs) : h.refs[k] = name
    THEN [ref |-> LET k == CHOOSE j \in 1..Len(h.refs) :
                              /\ h.refs[j] = name
                              /\ \A i \in 1..(j - 1) : h.refs[i] # name
                  IN  [nil |-> FALSE, id |-> k - 1, name |-> name, ptr |-> k],
          err |-> "nil", heap |-> heap]
    ELSE [ref |-> SamNilRef, err |-> "no reference", heap |-> heap]

\* The letters of the cigar operations 0..8, "MIDNSHP=X".
cigarLetters == <<77, 73, 68, 78, 83, 72, 80, 61, 88>>

\* ParseCigar's loop: a decimal length, then an operation letter.
RECURSIVE parseCigarLoop(_, _, _, _)
parseCigarLoop(b, n, digits, out) ==
    IF b = <<>>
    THEN IF digits = 0 THEN [cigar |-> out, err |-> "nil"]
         ELSE [cigar |-> <<>>, err |-> "cigar"]
    ELSE IF 48 <= Head(b) /\ Head(b) <= 57
    THEN parseCigarLoop(Tail(b), 10 * n + Head(b) - 48, digits + 1, out)
    ELSE IF digits = 0 \/ \A t \in 1..Len(cigarLetters) : cigarLetters[t] # Head(b)
    THEN [cigar |-> <<>>, err |-> "cigar"]
    ELSE parseCigarLoop(Tail(b), 0, 0,
             Append(out, cigarOp((CHOOSE t \in 1..Len(cigarLetters) :
                                      cigarLetters[t] = Head(b)) - 1, n)))

\* ParseCigar(b): "*" is the nil cigar.
ParseCigar(b) ==
    IF b = <<42>> THEN [cigar |-> <<>>, err |-> "nil"]
    ELSE parseCigarLoop(b, 0, 0, <<>>)

\* Cigar.String(): "*" for the empty cigar, else length and letter of each
\* operation.
RECURSIVE cigarText(_)
cigarText(c) ==
    IF c = <<>> THEN <<>>
    ELSE utoa(cigarOpLen(Head(c))) \o <<cigarLetters[cigarOpType(Head(c)) + 1]>>
           \o cigarText(Tail(c))

cigarString(c) == IF c = <<>> THEN <<42>> ELSE cigarText(c)

\* Cigar.IsValid(length), for cigars without clipping: the query-consuming
\* lengths sum to length.
RECURSIVE queryLength(_)
queryLength(c) ==
    IF c = <<>> THEN 0
    ELSE consumesQuery(cigarOpType(Head(c))) * cigarOpLen(Head(c))
           + queryLength(Tail(c))

cigarIsValid(c, length) == queryLength(c) = length

\* ParseAux(text) for the types A and Z: "TG:A:c" and "TG:Z:text" become the
\* bytes tag, type, value.
ParseAuxField(t) ==
    IF Len(t) >= 5 /\ t[3] = 58 /\ t[5] = 58
       /\ ((t[4] = 65 /\ Len(t) = 6) \/ t[4] = 90)
    THEN [aux |-> <<t[1], t[2], t[4]>> \o SubSeq(t, 6, Len(t)), err |-> "nil"]
    ELSE [aux |-> <<>>, err |-> "aux"]

\* samAux(t) under %v, for the types A and Z.
samAux(a) == <<a[1], a[2], 58, a[3], 58>> \o SubSeq(a, 4, Len(a))

\* Record{Name: name}
samZero(name) ==
    [ZeroRecord EXCEPT !.Name = name, !.Ref = SamNilRef, !.MateRef = SamNilRef]

\* What UnmarshalSAM leaves: the record, the error and the allocation count.
samResult(r, e, heap) == [rec |-> r, err |-> e, heap |-> heap]

\* UnmarshalSAM, the aux columns f[11:].
RECURSIVE umAuxLoop(_, _, _, _, _)
umAuxLoop(r, f, heap, i, out) ==
    IF i > Len(f) THEN samResult([r EXCEPT !.AuxFields = out], "nil", heap)
    ELSE IF ParseAuxField(f[i]).err # "nil"
    THEN samResult([r EXCEPT !.AuxFields =
                        out \o [k \in 1..(Len(f) - i + 1) |-> <<>>]],
                   ParseAuxField(f[i]).err, heap)
    ELSE umAuxLoop(r, f, heap, i + 1, Append(out, ParseAuxField(f[i]).aux))

umAux(r, f, heap) ==
    IF Len(f) > 11 THEN umAuxLoop(r, f, heap, 12, <<>>)
    ELSE samResult(r, "nil", heap)

\* UnmarshalSAM, the quality column f[10], with the quality bytes computed.
umQualSet(r, f, heap) ==
    IF Len(r.Qual) # 0 /\ Len(r.Qual) # r.Seq.Length
    THEN samResult(r, "sequence/quality length mismatch", heap)
    ELSE umAux(r, f, heap)

\* A nil Qual is the empty sequence: appending no bytes to nil leaves nil.
umQual(r, f, heap) ==
    IF f[11] # <<42>>
    THEN umQualSet([r EXCEPT !.Qual =
                       [k \in 1..Len(f[11]) |-> (f[11][k] + 256 - 33) % 256]],
                   f, heap)
    ELSE IF r.Seq.Length # 0
    THEN umQualSet([r EXCEPT !.Qual = [k \in 1..r.Seq.Length |-> 255]], f, heap)
    ELSE umQualSet(r, f, heap)

\* UnmarshalSAM, the sequence column f[9].
umSeqSet(r, f, heap) ==
    IF Len(r.Cigar) # 0 /\ ~cigarIsValid(r.Cigar, r.Seq.Length)
    THEN samResult(r, "sequence/CIGAR length mismatch", heap)
    ELSE umQual(r, f, heap)

umSeq(r, f, heap) ==
    IF f[10] # <<42>> THEN umSeqSet([r EXCEPT !.Seq = NewSeq(f[10])], f, heap)
    ELSE umQual(r, f, heap)

\* UnmarshalSAM, the template length f[8].
umTempLen(r, f, heap) ==
    IF Atoi(f[9]).err # "nil"
    THEN samResult([r EXCEPT !.TempLen = Atoi(f[9]).val],
                   "failed to parse template length", heap)
    ELSE umSeq([r EXCEPT !.TempLen = Atoi(f[9]).val], f, heap)

\* UnmarshalSAM, the mate position f[7].
umMatePos(r, f, heap) ==
    IF Atoi(f[8]).err # "nil"
    THEN samResult([r EXCEPT !.MatePos = Atoi(f[8]).val - 1],
                   "failed to parse mate position", heap)
    ELSE umTempLen([r EXCEPT !.MatePos = Atoi(f[8]).val - 1], f, heap)

\* UnmarshalSAM, the mate reference f[6], with the looked-up reference.
umMateSet(r, f, m) ==
    IF m.err # "nil"
    THEN samResult([r EXCEPT !.MateRef = m.ref],
                   "failed to assign mate reference", m.heap)
    ELSE umMatePos([r EXCEPT !.MateRef = m.ref], f, m.heap)

umMate(r, f, h, heap) ==
    IF f[3] = f[7] \/ f[7] = <<61>>
    THEN umMatePos([r EXCEPT !.MateRef = r.Ref], f, heap)
    ELSE umMateSet(r, f, referenceForName(h, f[7], heap))

\* UnmarshalSAM, the cigar column f[5].
umCigar(r, f, h, heap) ==
    IF ParseCigar(f[6]).err # "nil"
    THEN samResult([r EXCEPT !.Cigar = ParseCigar(f[6]).cigar],
                   "failed to parse cigar string", heap)
    ELSE umMate([r EXCEPT !.Cigar = ParseCigar(f[6]).cigar], f, h, heap)

\* UnmarshalSAM, the mapping quality f[4].
umMapQ(r, f, h, heap) ==
    IF ParseUint(f[5], 10, 8).err # "nil"
    THEN samResult(r, "failed to parse map quality", heap)
    ELSE umCigar([r EXCEPT !.MapQ = ParseUint(f[5], 10, 8).val], f, h, heap)

\* UnmarshalSAM, the position f[3]: it is decremented before the error test.
umPos(r, f, h, heap) ==
    IF Atoi(f[4]).err # "nil"
    THEN samResult([r EXCEPT !.Pos = Atoi(f[4]).val - 1],
                   "failed to parse position", heap)
    ELSE umMapQ([r EXCEPT !.Pos = Atoi(f[4]).val - 1], f, h, heap)

\* UnmarshalSAM, the reference f[2], with the looked-up reference.
umRefSet(r, f, h, m) ==
    IF m.err # "nil"
    THEN samResult([r EXCEPT !.Ref = m.ref], "failed to assign reference",
                   m.heap)
    ELSE umPos([r EXCEPT !.Ref = m.ref], f, h, m.heap)

\* UnmarshalSAM, the flags f[1].
umFlags(r, f, h, heap) ==
    IF ParseUint(f[2], 0, 16).err # "nil"
    THEN samResult(r, "failed to parse flags", heap)
    ELSE umRefSet([r EXCEPT !.Flags = ParseUint(f[2], 0, 16).val], f, h,
                  referenceForName(h, f[3], heap))

\* UnmarshalSAM on the split line.
umFields(r0, f, h, heap) ==
    IF Len(f) < 11 THEN samResult(r0, "missing SAM fields", heap)
    ELSE umFlags(samZero(f[1]), f, h, heap)

\* r.UnmarshalSAM(h, b); r0 is *r before the call.
UnmarshalSAM(r0, h, b, heap) == umFields(r0, Split(b), h, heap)

\* formatMate(ref, mate)
formatMate(ref, mate) ==
    IF ~mate.nil /\ ref.ptr = mate.ptr THEN <<61>> ELSE refName(mate)

\* formatSeq(s)
formatSeq(s) == IF s.Length = 0 THEN <<42>> ELSE Expand(s)

\* formatQual(q)
formatQual(q) ==
    IF \E k \in 1..Len(q) : q[k] # 255
    THEN [k \in 1..Len(q) |-> (q[k] + 33) % 256]
    ELSE <<42>>

\* MarshalSAM's loop over r.AuxFields.
RECURSIVE marshalAux(_)
marshalAux(fs) ==
    IF fs = <<>> THEN <<>> ELSE <<9>> \o samAux(Head(fs)) \o marshalAux(Tail(fs))

\* r.MarshalSAM(flags); a nil Qual is the empty sequence.
MarshalSAM(r, flags) ==
    IF flags < FlagDecimal \/ flags > FlagString
    THEN [buf |-> <<>>, err |-> "flag format option out of range"]
    ELSE IF r.Qual # <<>> /\ Len(r.Qual) # r.Seq.Length
    THEN [buf |-> <<>>, err |-> "sequence/quality length mismatch"]
    ELSE [buf |-> r.Name \o <<9>> \o formatFlags(r.Flags, flags).out
                    \o <<9>> \o refName(r.Ref)
                    \o <<9>> \o itoa(r.Pos + 1)
                    \o <<9>> \o utoa(r.MapQ)
                    \o <<9>> \o cigarString(r.Cigar)
                    \o <<9>> \o formatMate(r.Ref, r.MateRef)
                    \o <<9>> \o itoa(r.MatePos + 1)
                    \o <<9>> \o itoa(r.TempLen)
                    \o <<9>> \o formatSeq(r.Seq)
                    \o <<9>> \o formatQual(r.Qual)
                    \o marshalAux(r.AuxFields),
          err |-> "nil"]

\* Seq.Equal, Cigar.Equal and AuxFields.Equal.
seqEqual(s, o) ==
    /\ s.Length = o.Length
    /\ \A i \in 1..Len(s.Seq) : i <= Len(o.Seq) /\ s.Seq[i] = o.Seq[i]

cigarEqual(s, o) == Len(s) = Len(o) /\ \A i \in 1..Len(s) : s[i] = o[i]

auxFieldsEqual(s, o) == Len(s) = Len(o) /\ \A i \in 1..Len(s) : s[i] = o[i]

\* r.Equal(other): references are compared by address.
Equal(r, o) ==
    /\ r.Name = o.Name
    /\ r.Ref.ptr = o.Ref.ptr
    /\ r.Pos = o.Pos
    /\ r.MapQ = o.MapQ
    /\ cigarEqual(r.Cigar, o.Cigar)
    /\ r.Flags = o.Flags
    /\ r.MateRef.ptr = o.MateRef.ptr
    /\ r.MatePos = o.MatePos
    /\ r.TempLen = o.TempLen
    /\ seqEqual(r.Seq, o.Seq)
    /\ r.Qual = o.Qual
    /\ auxFieldsEqual(r.AuxFields, o.AuxFields)

\* A line from its columns.
RECURSIVE joinTabs(_)
joinTabs(fs) ==
    IF Len(fs) = 1 THEN fs[1] ELSE fs[1] \o <<9>> \o joinTabs(Tail(fs))

\* The columns name, flags, mapping quality, mate position and template
\* length of the lines parsed here: "r 0 30 0 0", " 81 0 5 -9",
\* "r 0x10 255 0 +4", "r 010 0 0 0" and five with one column that does not
\* parse (flags 65536 and "p", quality 256, mate position "x", an empty
\* template length).
NumberColumns ==
    { << <<114>>, <<48>>, <<51, 48>>, <<48>>, <<48>> >>,
      << <<>>, <<56, 49>>, <<48>>, <<53>>, <<45, 57>> >>,
      << <<114>>, <<48, 120, 49, 48>>, <<50, 53, 53>>, <<48>>, <<43, 52>> >>,
      << <<114>>, <<48, 49, 48>>, <<48>>, <<48>>, <<48>> >>,
      << <<114>>, <<54, 53, 53, 51, 54>>, <<48>>, <<48>>, <<48>> >>,
      << <<114>>, <<112>>, <<48>>, <<48>>, <<48>> >>,
      << <<114>>, <<48>>, <<50, 53, 54>>, <<48>>, <<48>> >>,
      << <<114>>, <<48>>, <<48>>, <<120>>, <<48>> >>,
      << <<114>>, <<48>>, <<48>>, <<48>>, <<>> >> }

\* Reference columns "*", "c", "e" and mate columns "*", "=", "c", "d".
RefColumns == { <<42>>, <<99>>, <<101>> }
MateColumns == { <<42>>, <<61>>, <<99>>, <<100>> }

\* Position columns "0", "1", "+7", "x".
PosColumns == { <<48>>, <<49>>, <<43, 55>>, <<120>> }

\* Cigar columns "*", "2M", "1M", "1Z".
CigarColumns == { <<42>>, <<50, 77>>, <<49, 77>>, <<49, 90>> }

\* Sequence columns "*", "", "aN"; quality columns "*", "", "I!", "  ", "I".
SeqColumns == { <<42>>, <<>>, <<97, 78>> }
QualColumns == { <<42>>, <<>>, <<73, 33>>, <<32, 32>>, <<73>> }

\* Aux columns: none, "NM:Z:a", or "N".
AuxColumns == { <<>>, << <<78, 77, 58, 90, 58, 97>> >>, << <<78>> >> }

\* The lines handed to UnmarshalSAM, and one line of ten columns.
SamLines ==
    { joinTabs(<<n[1], n[2], ref, pos, n[3], cig, mate, n[4], n[5], sq, ql>>
               \o ax) :
        n \in NumberColumns, ref \in RefColumns, pos \in PosColumns,
        cig \in CigarColumns, mate \in MateColumns, sq \in SeqColumns,
        ql \in QualColumns, ax \in AuxColumns }
      \cup { joinTabs([k \in 1..10 |-> <<48>>]) }

\* The flag formats handed to MarshalSAM and the flags handed to formatFlags.
FlagFormats == -1..3
FlagValues == 0..4095 \cup {4096, 32849, 65535}

NoSam == samResult(samZero(<<>>), "nil", 0)
NoBuf == [buf |-> <<>>, err |-> "nil", format |-> 0]
NoFlags == [f |-> 0, format |-> 0, out |-> <<>>]

\* r.UnmarshalSAM(h, line) on a new Record.
UnmarshalLine ==
    /\ samPc = "idle"
    /\ \E b \in SamLines, h \in {NoHeader, SamHeader} :
          /\ samLine' = b
          /\ samHdr' = h
          /\ samRec' = UnmarshalSAM(samZero(<<>>), h, b, 0)
    /\ samPc' = "parsed"
    /\ UNCHANGED <<samBuf, samRec2, ffl>>
    /\ SamFrame

\* r.MarshalSAM(format) on the record parsed.
MarshalRecord ==
    /\ samPc = "parsed"
    /\ samRec.err = "nil"
    /\ \E format \in FlagFormats :
          \E m \in { MarshalSAM(samRec.rec, format) } :
              samBuf' = [buf |-> m.buf, err |-> m.err, format |-> format]
    /\ samPc' = "marshalled"
    /\ UNCHANGED <<samLine, samHdr, samRec, samRec2, ffl>>
    /\ SamFrame

\* UnmarshalSAM of MarshalSAM's output on another new Record, with the
\* same header.
UnmarshalAgain ==
    /\ samPc = "marshalled"
    /\ samBuf.err = "nil"
    /\ samRec2' = UnmarshalSAM(samZero(<<>>), samHdr, samBuf.buf, samRec.heap)
    /\ samPc' = "reparsed"
    /\ UNCHANGED <<samLine, samHdr, samRec, samBuf, ffl>>
    /\ SamFrame

\* formatFlags(f, format) for the three formats.
FormatFlags ==
    /\ samPc = "idle"
    /\ \E f \in FlagValues, format \in FlagDecimal..FlagString :
          ffl' = [f |-> f, format |-> format, out |-> formatFlags(f, format).out]
    /\ samPc' = "flags"
    /\ UNCHANGED <<samLine, samHdr, samRec, samBuf, samRec2>>
    /\ SamFrame

(***************************************************************************)
(* Specifications: every group starts idle; a specification runs the       *)
(* actions of one group.                                                   *)
(***************************************************************************)
Init ==
    /\ aux = <<>>
    /\ auxCap = 0
    /\ auxPc = "build"
    /\ cres = NoCount
    /\ pres = NoParse
    /\ qtag = <<>>
    /\ gres = NoGet
    /\ payload = <<>>
    /\ nrefs = 0
    /\ omit = 0
    /\ dbase = ZeroRecord
    /\ dres = NoDecode
    /\ dpc = "idle"
    /\ pool = <<>>
    /\ held = ZeroRecord
    /\ got = ZeroRecord
    /\ lpc = "none"
    /\ rin = ZeroRecord
    /\ rout = NoExam
    /\ rpc = "idle"
    /\ stream = <<>>
    /\ roff = Offset(0, 0)
    /\ rc = NilChunk
    /\ itChunks = <<>>
    /\ itErr = "nil"
    /\ itRec = NoRecord
    /\ chunks0 = <<>>
    /\ ilog = <<>>
    /\ ipc = "init"
    /\ tfields = <<>>
    /\ tcall = "none"
    /\ tres = NoTagResult
    /\ sbytes = <<>>
    /\ sres = NoPack
    /\ spc = "idle"
    /\ samLine = <<>>
    /\ samHdr = NoHeader
    /\ samRec = NoSam
    /\ samBuf = NoBuf
    /\ samRec2 = NoSam
    /\ ffl = NoFlags
    /\ samPc = "idle"

AuxNext == AppendField \/ DropByte \/ CountAux \/ ParseAux \/ QueryUnique

DecNext == DecodeRecord

SpecAux == Init /\ [][AuxNext]_vars

SpecDecode == Init /\ [][DecNext]_vars

PoolNext == PoolGet \/ PoolNewRecord \/ PoolUnmarshal \/ PoolPut

Spec == Init /\ [][PoolNext]_vars

RecNext == Examine

SpecRecord == Init /\ [][RecNext]_vars

ReaderNext == NewReader \/ NewIterator \/ Next \/ Close

SpecReader == Init /\ [][ReaderNext]_vars

TagNext ==
    \/ CallAuxIntValue
    \/ CallAuxInt64Value
    \/ CallBagID
    \/ CallBagSize
    \/ CallLibraryBagSize
    \/ CallLinearBagID
    \/ CallLinearBagSize

SpecTags == Init /\ [][TagNext]_vars

SeqNext == PackSeq

SpecSeq == Init /\ [][SeqNext]_vars

SamNext == UnmarshalLine \/ MarshalRecord \/ UnmarshalAgain \/ FormatFlags

SpecSam == Init /\ [][SamNext]_vars

(***************************************************************************)
(* Claims.                                                                 *)
(***************************************************************************)
\* The fields of the record being looked up, and those carrying the tag.
QFields == AuxFieldsOf(aux, pres.aa)
QMatches == {k \in 1..Len(QFields) : auxMatches(QFields[k], qtag)}

\* C1: GetUnique(tag) returns (nil, no error) when no field carries the tag,
\* the matching field and no error when exactly one does, and an error when
\* two or more do, whatever fields with other tags lie between them.
C1_GetUnique ==
    auxPc = "queried" =>
        /\ Cardinality(QMatches) = 0 => gres = [aux |-> NilAux, err |-> "nil"]
        /\ Cardinality(QMatches) = 1 =>
               /\ gres.err = "nil"
               /\ \A k \in QMatches : gres.aux = QFields[k]
        /\ Cardinality(QMatches) >= 2 => gres.err = "ambiguous"

\* C1 witness: a lookup of a tag carried by two fields with a field of
\* another tag between them.
C1_Witness ==
    /\ auxPc = "queried"
    /\ \E k1, k2, k3 \in 1..Len(QFields) :
          /\ k1 < k2 /\ k2 < k3
          /\ k1 \in QMatches /\ k3 \in QMatches /\ k2 \notin QMatches
    /\ gres.err = "ambiguous"

\* Payload width of each fixed-width type and array element type, as the
\* aux format defines it: A, c, C one byte; s, S two; i, I, f four.
FixedTypes == {65, 99, 67, 115, 83, 105, 73, 102}
ElemWidth(t) ==
    IF t \in {65, 99, 67} THEN 1 ELSE IF t \in {115, 83} THEN 2 ELSE 4

HasNulFrom(a, i) == \E p \in i..(Len(a) - 1) : At(a, p) = 0
FirstNulFrom(a, i) ==
    CHOOSE p \in i..(Len(a) - 1) :
        At(a, p) = 0 /\ \A q \in i..(p - 1) : At(a, q) # 0

\* Whether the field walk from offset i meets an unrecognized type byte, a
\* Z/H field with no NUL before the end of the range, or a B field with
\* fewer than 8 bytes for its header.
RECURSIVE MalformedFrom(_, _)
MalformedFrom(a, i) ==
    IF i + 2 >= Len(a) THEN FALSE
    ELSE LET t == At(a, i + 2) IN
         IF t \in FixedTypes THEN MalformedFrom(a, i + 3 + ElemWidth(t))
         ELSE IF t \in {90, 72} THEN
             IF HasNulFrom(a, i) THEN MalformedFrom(a, FirstNulFrom(a, i) + 1)
             ELSE TRUE
         ELSE IF t = 66 THEN
             IF Len(a) < i + 8 THEN TRUE
             ELSE IF At(a, i + 3) \in FixedTypes
                  THEN MalformedFrom(a, i + 8 + Uint32(a, i + 4) * ElemWidth(At(a, i + 3)))
                  ELSE FALSE
         ELSE TRUE

\* C4 (as claimed): countAuxFields fails with the corrupt-aux-field error
\* exactly on the ranges in which some field has an unrecognized type byte,
\* or a Z/H field has no NUL terminator, or a B field has fewer than 8 bytes
\* for its header.
C4_CountFailsOnMalformed ==
    auxPc = "counted" => ((cres.err = "corrupt") <=> MalformedFrom(aux, 0))

\* The span the index pass records for a fixed-width field and for a B field.
C5_FixedAndArraySpan(a, e) ==
    LET t == At(a, e.lo + 2) IN
    /\ t \in FixedTypes => e.hi - e.lo = 3 + ElemWidth(t)
    /\ (t = 66 /\ At(a, e.lo + 3) \in FixedTypes) =>
           e.hi - e.lo = 2 + 1 + 1 + 4
                           + Uint32(a, e.lo + 4) * ElemWidth(At(a, e.lo + 3))

\* C5 (amended): in the index pass the sub-slice of a Z or H field that has a
\* NUL terminator runs from the field's tag up to, and not including, that
\* NUL (the byte right after the sub-slice is the NUL); a B field's sub-slice
\* spans tag, type, element type, 4-byte count and all count elements; a
\* fixed-width field's spans 3 + width bytes.
C5_ParseSpans ==
    (auxPc \in {"parsed", "queried"} /\ pres.err = "nil") =>
        \A k \in 1..Len(pres.aa) :
            LET e == pres.aa[k]
                t == At(aux, e.lo + 2)
            IN  /\ C5_FixedAndArraySpan(aux, e)
                /\ (t \in {90, 72} /\ HasNulFrom(aux, e.lo)) =>
                       /\ e.hi = FirstNulFrom(aux, e.lo)
                       /\ At(aux, e.hi) = 0

\* C5 (as claimed): the sub-slice of a Z or H field runs through and
\* including its trailing NUL byte.
C5_ParseSpansWithNul ==
    (auxPc \in {"parsed", "queried"} /\ pres.err = "nil") =>
        \A k \in 1..Len(pres.aa) :
            LET e == pres.aa[k]
                t == At(aux, e.lo + 2)
            IN  /\ C5_FixedAndArraySpan(aux, e)
                /\ (t \in {90, 72} /\ HasNulFrom(aux, e.lo)) =>
                       /\ e.hi = FirstNulFrom(aux, e.lo) + 1
                       /\ At(aux, e.hi - 1) = 0

\* C5 witness: an indexed range holding a Z field with its NUL, a B field
\* and a fixed-width field.
C5_Witness ==
    /\ auxPc = "parsed"
    /\ pres.err = "nil"
    /\ \E k1, k2, k3 \in 1..Len(pres.aa) :
          /\ At(aux, pres.aa[k1].lo + 2) = 90
          /\ HasNulFrom(aux, pres.aa[k1].lo)
          /\ At(aux, pres.aa[k2].lo + 2) = 66
          /\ pres.aa[k2].hi - pres.aa[k2].lo = 9
          /\ At(aux, pres.aa[k3].lo + 2) \in FixedTypes

\* The same payload decoded with nothing omitted, into the same record.
FullDecode == unmarshal(dbase, payload, nrefs, None)

\* C3 (as claimed): for a payload that decodes, mode AuxTags yields the name,
\* cigar, seq and qual of mode None and leaves only aux_fields empty; mode
\* AllVariableLengthData yields the name and cigar of mode None with seq, qual
\* and aux_fields empty.
C3_OmitModes ==
    (dpc = "done" /\ dres.ok /\ FullDecode.ok) =>
        /\ omit = AuxTags =>
              /\ dres.rec.Name = FullDecode.rec.Name
              /\ dres.rec.Cigar = FullDecode.rec.Cigar
              /\ dres.rec.Seq = FullDecode.rec.Seq
              /\ dres.rec.Qual = FullDecode.rec.Qual
              /\ dres.rec.AuxFields = <<>>
        /\ omit = AllVariableLengthData =>
              /\ dres.rec.Name = FullDecode.rec.Name
              /\ dres.rec.Cigar = FullDecode.rec.Cigar
              /\ dres.rec.Seq = EmptySeq
              /\ dres.rec.Qual = <<>>
              /\ dres.rec.AuxFields = <<>>

\* C8 (as claimed, for the binary decoder): a record the decoder returns has
\* Ref = nil only with Pos = -1 and MateRef = nil only with MatePos = -1.
C8_UnplacedHasNoPosition ==
    (dpc = "done" /\ dres.ok) =>
        /\ dres.rec.Ref.nil => dres.rec.Pos = -1
        /\ dres.rec.MateRef.nil => dres.rec.MatePos = -1

\* C9 (as claimed): the decoded name has length l_read_name - 1, between 1
\* and 254, and lies inside the copied variable-length region at the start
\* of the scratch buffer.
C9_NameLength ==
    (dpc = "done" /\ dres.ok) =>
        /\ dres.lay.name.len = At(payload, 8) - 1
        /\ dres.lay.name.len >= 1
        /\ dres.lay.name.len <= 254
        /\ dres.lay.name.off = 0
        /\ dres.lay.name.off + dres.lay.name.len <= Len(payload) - 32
        /\ Len(payload) - 32 <= dres.rec.Scratch.len

\* The length a payload declares: 32 + l_read_name + 4*n_cigar_op
\* + ceil(l_seq/2) + l_seq.
DeclaredLen(b) ==
    32 + At(b, 8) + 4 * Uint16(b, 12)
       + ((Uint32(b, 16) \div 2) + (Uint32(b, 16) % 2)) + Uint32(b, 16)

IsReset(r) ==
    /\ r.Pos = 0 /\ r.MapQ = 0 /\ r.Flags = 0 /\ r.MatePos = 0 /\ r.TempLen = 0
    /\ r.Name = <<>> /\ r.Ref.nil /\ r.MateRef.nil
    /\ r.Cigar = <<>> /\ r.Seq = EmptySeq /\ r.Qual = <<>> /\ r.AuxFields = <<>>

\* C2: after any sequence of acquire / populate / release operations, the
\* record GetFromFreePool returns has Pos, MapQ, Flags, MatePos and TempLen
\* zero, Name, Ref and MateRef empty, and Cigar, Seq, Qual and AuxFields
\* empty: nothing of a released record shows through it but Scratch.
C2_AcquiredRecordIsReset == IsReset(got)

\* Sum of the lengths of the cigar ops whose type is in ts.
RECURSIVE CigarSum(_, _)
CigarSum(cig, ts) ==
    IF cig = <<>> THEN 0
    ELSE (IF Head(cig) % 16 \in ts THEN Head(cig) \div 16 ELSE 0)
           + CigarSum(Tail(cig), ts)

RefTypes == {0, 2, 3, 7, 8}
QueryTypes == {0, 1, 4, 7, 8}

HasFlag(r, bit) == (r.Flags \div bit) % 2 = 1

\* The cross-field invariants of the record model.
CrossFieldValid(r) ==
    /\ ~HasFlag(r, 4) => (~r.Ref.nil /\ r.Pos >= 0)
    /\ (HasFlag(r, 1) /\ ~HasFlag(r, 8)) => (~r.MateRef.nil /\ r.MatePos >= 0)
    /\ ~(HasFlag(r, 4) /\ HasFlag(r, 2))
    /\ ~(HasFlag(r, 1) /\ HasFlag(r, 8) /\ HasFlag(r, 2))
    /\ Len(r.Qual) # 0 => Len(r.Qual) = r.Seq.Length
    /\ (r.Cigar # <<>> /\ r.Seq.Length # 0)
          => CigarSum(r.Cigar, QueryTypes) = r.Seq.Length

\* C6: IsValidRecord(r) is true exactly when r satisfies the cross-field
\* invariants: mapped implies placed, paired with a mapped mate implies the
\* mate placed, the two forbidden flag combinations absent, a non-empty qual
\* as long as seq, and, for a non-empty cigar and a non-empty seq, the
\* query-consuming cigar lengths summing to seq.length.
C6_IsValidRecord == rpc = "done" => (rout.valid <=> CrossFieldValid(rin))

\* The largest prefix sum of the reference-consuming lengths.
PrefixMax(cig) ==
    CHOOSE m \in { CigarSum(SubSeq(cig, 1, k), RefTypes) : k \in 0..Len(cig) } :
        \A k \in 0..Len(cig) : CigarSum(SubSeq(cig, 1, k), RefTypes) <= m

C11_ReferenceLinking ==
    (dpc = "done" /\ Len(payload) >= 32) =>
        LET refID == Int32(payload, 0)
            nextRefID == Int32(payload, 20)
        IN  /\ dres.ok =>
                 /\ dres.rec.Ref.nil <=> refID = -1
                 /\ refID # -1 => dres.rec.Ref = [nil |-> FALSE, id |-> refID]
                 /\ dres.rec.MateRef.nil <=> nextRefID = -1
                 /\ nextRefID # -1 =>
                       dres.rec.MateRef = [nil |-> FALSE, id |-> nextRefID]
                 /\ refID = nextRefID => dres.rec.MateRef = dres.rec.Ref
            /\ (refID < -1 \/ refID >= nrefs \/ nextRefID < -1 \/ nextRefID >= nrefs)
                 => (~dres.ok /\ dres.err # "nil" /\ dres.rec = ZeroRecord)

\* A decode linked reference 0 and the mate to the same reference.
C11_Witness ==
    /\ dpc = "done"
    /\ dres.ok
    /\ Int32(payload, 0) = 0
    /\ Int32(payload, 20) = 0
    /\ dres.rec.Ref = [nil |-> FALSE, id |-> 0]
    /\ dres.rec.MateRef = dres.rec.Ref

\* The Read calls of the log that got as far as a block size.
SizedReads == { k \in 1..Len(ilog) : ilog[k].op = "read" /\ ilog[k].size >= 0 }

\* C12 (as claimed): a read fails with the record-too-large error exactly
\* when the declared block size is greater than 16 MiB (16,777,216).
C12_TooLargeAbove16MiB ==
    \A k \in SizedReads : ilog[k].err = "toolarge" <=> ilog[k].size > 16777216

\* C12 (amended): a read fails with the record-too-large error exactly when
\* the declared block size is greater than 16,777,215 bytes, that is 16 MiB
\* or more; a smaller declared size is never refused for its size.
C12_TooLargeFrom16MiB ==
    \A k \in SizedReads : ilog[k].err = "toolarge" <=> ilog[k].size > 16777215

\* A record declaring exactly 16 MiB has been read and refused as too large.
C12_Witness ==
    \E k \in SizedReads : ilog[k].size = 16777216 /\ ilog[k].err = "toolarge"

LogSeeks == { j \in 1..Len(ilog) : ilog[j].op = "seek" }
LogReads == { j \in 1..Len(ilog) : ilog[j].op = "read" }
LogDelivered == { j \in LogReads : ilog[j].err = "nil" }

\* C19: the chunks are taken in the given order, each at most once; chunk
\* k+1 is sought only right after Read answered io.EOF on chunk k; Read
\* answers io.EOF and consumes nothing once the reader stands at or past the
\* chunk's end; within a chunk the records come in stream order; a failed
\* seek ends the iteration with its error; an iterator over no chunks
\* delivers nothing and reports a nil Error.
C19_IteratorOrder ==
    /\ \A j \in LogSeeks :
          /\ ilog[j].idx = Cardinality({ i \in LogSeeks : i <= j })
          /\ ilog[j].idx <= Len(chunks0)
          /\ ilog[j].err = "nil" => ilog[j].to = chunks0[ilog[j].idx].Begin
          /\ ilog[j].idx >= 2 =>
                /\ j > 1
                /\ ilog[j - 1].op = "read"
                /\ ilog[j - 1].err = "EOF"
                /\ ilog[j - 1].idx = ilog[j].idx - 1
          /\ ilog[j].err # "nil" =>
                (j = Len(ilog) /\ itErr = ilog[j].err /\ IterError(itErr) = ilog[j].err)
    /\ \A j \in LogReads :
          /\ ilog[j].idx \in 1..Len(chunks0)
          /\ vOffset(ilog[j].from) >= vOffset(chunks0[ilog[j].idx].End) =>
                (ilog[j].err = "EOF" /\ ilog[j].to = ilog[j].from /\ ilog[j].rec.nil)
          /\ ilog[j].err = "nil" =>
                /\ ilog[j].from.File < Len(stream)
                /\ ilog[j].to = Offset(ilog[j].from.File + 1, 0)
                /\ ~ilog[j].rec.nil
    /\ \A i, j \in LogDelivered :
          (i < j /\ ilog[i].idx = ilog[j].idx) =>
              /\ ilog[i].from.File < ilog[j].from.File
              /\ (\A m \in LogDelivered : ~(i < m /\ m < j)) => ilog[j].from = ilog[i].to
    /\ (ipc \in {"iter", "closed"} /\ chunks0 = <<>>) =>
          (ilog = <<>> /\ itRec.nil /\ IterError(itErr) = "nil")

\* The iterator delivered a record from its first chunk, met io.EOF at the
\* chunk's end, sought the second chunk and delivered a record from it.
C19_Witness ==
    /\ ipc = "iter"
    /\ Len(chunks0) = 2
    /\ \E i, j, m \in 1..Len(ilog) :
          /\ i < j /\ j + 1 = m
          /\ ilog[i].op = "read" /\ ilog[i].err = "nil" /\ ilog[i].idx = 1
          /\ ilog[j].op = "read" /\ ilog[j].err = "EOF" /\ ilog[j].idx = 1
          /\ ilog[m].op = "seek" /\ ilog[m].err = "nil" /\ ilog[m].idx = 2
    /\ ilog[Len(ilog)].op = "read"
    /\ ilog[Len(ilog)].err = "nil"
    /\ ilog[Len(ilog)].idx = 2

\* The tag the accessor called last looks up.
CallTag ==
    CASE tcall \in {"auxInt64Value", "BagID"} -> <<68, 73>>
      [] tcall \in {"auxIntValue", "BagSize"} -> <<68, 83>>
      [] tcall = "LibraryBagSize" -> <<68, 76>>
      [] tcall = "LinearBagID" -> <<76, 73>>
      [] OTHER -> <<76, 83>>

Carriers == { k \in 1..Len(tfields) : SubSeq(tfields[k], 1, 2) = CallTag }
TheCarrier == tfields[CHOOSE k \in Carriers : TRUE]

\* The type bytes c, C, s, S, i, I and the number a field of such a type
\* holds on the wire: little-endian, two's complement for c, s and i.
IntTypes == {99, 67, 115, 83, 105, 73}

RECURSIVE LittleEndian(_)
LittleEndian(bs) == IF bs = <<>> THEN 0 ELSE Head(bs) + 256 * LittleEndian(Tail(bs))

WireInt(f) ==
    LET bs == SubSeq(f, 4, Len(f))
        top == bs[Len(bs)]
        low == LittleEndian(SubSeq(bs, 1, Len(bs) - 1))
        hi == IF f[3] \in {99, 115, 105} /\ top >= 128 THEN top - 256 ELSE top
    IN  IF Len(bs) = 1 THEN hi
        ELSE IF Len(bs) = 2 THEN low + 256 * hi
        ELSE low + 16777216 * hi

\* A Z payload that is a decimal integer, and its value.
IsDecimal(pl) ==
    LET ds == IF pl # <<>> /\ pl[1] = 45 THEN Tail(pl) ELSE pl
    IN  ds # <<>> /\ \A k \in 1..Len(ds) : ds[k] \in 48..57

RECURSIVE DecimalOf(_)
DecimalOf(ds) ==
    IF ds = <<>> THEN 0 ELSE 10 * DecimalOf(SubSeq(ds, 1, Len(ds) - 1)) + (ds[Len(ds)] - 48)

DecimalValue(pl) == IF pl[1] = 45 THEN 0 - DecimalOf(Tail(pl)) ELSE DecimalOf(pl)

\* C13 (as claimed): auxIntValue and auxInt64Value return (value, true, nil)
\* for a unique field of any of the types c, C, s, S, i, I; auxInt64Value
\* also returns the decimal value of a Z payload; a field of any other type
\* gives an error with found false, an absent tag (-1, false, nil), a
\* duplicated tag the ambiguity error.
C13_IntegerCoercion ==
    tcall \in {"auxIntValue", "auxInt64Value"} =>
        /\ Carriers = {} => tres = [val |-> -1, found |-> FALSE, err |-> "nil"]
        /\ Cardinality(Carriers) >= 2 => (tres.err = "ambiguous" /\ ~tres.found)
        /\ Cardinality(Carriers) = 1 =>
              LET f == TheCarrier
                  pl == SubSeq(f, 4, Len(f))
                  text == tcall = "auxInt64Value" /\ f[3] = 90
              IN  /\ f[3] \in IntTypes =>
                        tres = [val |-> WireInt(f), found |-> TRUE, err |-> "nil"]
                  /\ (text /\ IsDecimal(pl)) =>
                        tres = [val |-> DecimalValue(pl), found |-> TRUE, err |-> "nil"]
                  /\ (f[3] \notin IntTypes /\ ~text) =>
                        (tres.err # "nil" /\ ~tres.found)

\* C14 (as claimed): BagID, BagSize, LibraryBagSize, LinearBagID and
\* LinearBagSize return (-1, nil) when their tag is absent, (-1, error) when
\* it is present with a value below the minimum (0 for the two ids, 1 for the
\* three sizes), (value, nil) when the value is at or above the minimum, and
\* never a rejected value with a nil error.
C14_HelperThresholds ==
    tcall \in {"BagID", "BagSize", "LibraryBagSize", "LinearBagID", "LinearBagSize"} =>
        LET min == IF tcall \in {"BagID", "LinearBagID"} THEN 0 ELSE 1 IN
        /\ Carriers = {} => (tres.val = -1 /\ tres.err = "nil")
        /\ Cardinality(Carriers) = 1 =>
              LET f == TheCarrier
                  pl == SubSeq(f, 4, Len(f))
                  text == tcall \in {"BagID", "LinearBagID"} /\ f[3] = 90 /\ IsDecimal(pl)
                  v == IF text THEN DecimalValue(pl) ELSE WireInt(f)
              IN  (f[3] \in IntTypes \/ text) =>
                     IF v < min THEN tres.val = -1 /\ tres.err # "nil"
                     ELSE tres.val = v /\ tres.err = "nil"
        /\ tres.err = "nil" => (tres.val = -1 \/ tres.val >= min)

\* The alphabet in code order, and upper-casing of a byte.
CodeLetters == <<61, 65, 67, 77, 71, 82, 83, 86, 84, 87, 89, 72, 75, 68, 66, 78>>
Upper(b) == IF b >= 97 /\ b <= 122 THEN b - 32 ELSE b
InAlphabet(b) == \E c \in 1..16 : CodeLetters[c] = Upper(b)
LetterCode(b) == (CHOOSE c \in 1..16 : CodeLetters[c] = Upper(b)) - 1

\* Nibble i (from 0) of the stored bytes: the high nibble of byte i/2 for
\* even i, the low nibble for odd i.
Nibble(i) ==
    IF i % 2 = 0 THEN sres.seq.Seq[(i \div 2) + 1] \div 16
    ELSE sres.seq.Seq[(i \div 2) + 1] % 16

\* Length, storage size and the zero low nibble of an odd-length sequence.
PackedShape ==
    /\ sres.seq.Length = Len(sbytes)
    /\ Len(sres.seq.Seq) = (Len(sbytes) \div 2) + (Len(sbytes) % 2)
    /\ Len(sbytes) % 2 = 1 => sres.seq.Seq[Len(sres.seq.Seq)] % 16 = 0

\* C15 (as claimed): NewSeq stores base i in the high nibble of byte i/2 for
\* even i and the low nibble for odd i, each alphabet letter in either case
\* as its code and every other byte as 0xF.
C15_PackAllOthersN ==
    spc = "done" =>
        /\ PackedShape
        /\ \A i \in 0..(Len(sbytes) - 1) :
              Nibble(i) = IF InAlphabet(sbytes[i + 1]) THEN LetterCode(sbytes[i + 1]) ELSE 15

\* C15 (amended): as claimed, but the digits '0', '1', '2', '3' are stored
\* as 1, 2, 4, 8 (the codes of A, C, G, T); every byte that is neither an
\* alphabet letter nor one of these digits is stored as 0xF.  Base(i)
\* returns the stored code.
C15_PackDigitsAsBases ==
    spc = "done" =>
        /\ PackedShape
        /\ \A i \in 0..(Len(sbytes) - 1) :
              /\ Nibble(i) =
                    IF InAlphabet(sbytes[i + 1]) THEN LetterCode(sbytes[i + 1])
                    ELSE CASE sbytes[i + 1] = 48 -> 1
                           [] sbytes[i + 1] = 49 -> 2
                           [] sbytes[i + 1] = 50 -> 4
                           [] sbytes[i + 1] = 51 -> 8
                           [] OTHER -> 15
              /\ sres.bases[i + 1] = Nibble(i)

\* The sequence "3tX" has been packed: 8 and 8 in the first byte, 0xF and 0
\* in the second.
C15_Witness ==
    /\ spc = "done"
    /\ sbytes = <<51, 116, 88>>
    /\ sres.seq.Seq = <<136, 240>>

\* C16: for a sequence over the sixteen letters in any mix of case, Expand()
\* is the upper-cased sequence and BaseChar(i) is its i-th byte.
C16_ExpandRoundTrip ==
    (spc = "done" /\ \A i \in 1..Len(sbytes) : InAlphabet(sbytes[i])) =>
        /\ sres.expand = [i \in 1..Len(sbytes) |-> Upper(sbytes[i])]
        /\ sres.chars = sres.expand

\* The sequence "n=At" has been packed and expanded to "N=AT".
C16_Witness ==
    /\ spc = "done"
    /\ sbytes = <<110, 61, 65, 116>>
    /\ sres.expand = <<78, 61, 65, 84>>
    /\ sres.chars = <<78, 61, 65, 84>>

(***************************************************************************)
(* C17: for every SAM line that UnmarshalSAM parses against a header,      *)
(* MarshalSAM with FlagDecimal succeeds on the record, and UnmarshalSAM of *)
(* its output against the same header succeeds and yields a record Equal   *)
(* to the first: lines with position 0, with a mate column '=' or the      *)
(* reference name again, and with a '*' sequence or quality included.      *)
(***************************************************************************)
C17_SamRoundTrip ==
    /\ (samPc = "marshalled" /\ samBuf.format = FlagDecimal)
          => samBuf.err = "nil"
    /\ (samPc = "reparsed" /\ samBuf.format = FlagDecimal)
          => /\ samRec2.err = "nil"
             /\ Equal(samRec.rec, samRec2.rec)

(***************************************************************************)
(* C18: in the String format, formatFlags emits, in bit order 0..11, the   *)
(* letter at position i of "pPuUrR12sfdS" exactly when bit i is set in the *)
(* flags after masking; when the Paired bit is clear, the ProperPair,      *)
(* MateUnmapped, MateReverse, Read1 and Read2 bits are cleared first and   *)
(* no other bit is changed (0x51 gives "pr1", 0x06 gives "u"); MarshalSAM  *)
(* with a format outside Decimal, Hex, String returns an error and no      *)
(* output.                                                                 *)
(***************************************************************************)
BitOf(f, i) == (f \div (2 ^ i)) % 2

MaskedFlags(f) ==
    IF BitOf(f, 0) = 1 THEN f
    ELSE f - 2 * BitOf(f, 1) - 8 * BitOf(f, 3) - 32 * BitOf(f, 5)
           - 64 * BitOf(f, 6) - 128 * BitOf(f, 7)

StringLetters == <<112, 80, 117, 85, 114, 82, 49, 50, 115, 102, 100, 83>>

LetterIndex(c) == CHOOSE i \in 0..11 : StringLetters[i + 1] = c

C18_FlagStringFormat ==
    /\ (samPc = "flags" /\ ffl.format = FlagString)
          => /\ \A k \in 1..Len(ffl.out) :
                    \E i \in 0..11 : StringLetters[i + 1] = ffl.out[k]
             /\ \A i \in 0..11 :
                    (BitOf(MaskedFlags(ffl.f), i) = 1)
                       <=> \E k \in 1..Len(ffl.out) :
                              ffl.out[k] = StringLetters[i + 1]
             /\ \A k \in 1..(Len(ffl.out) - 1) :
                    LetterIndex(ffl.out[k]) < LetterIndex(ffl.out[k + 1])
             /\ (ffl.f = 81 => ffl.out = <<112, 114, 49>>)
             /\ (ffl.f = 6 => ffl.out = <<117>>)
    /\ (samPc = "marshalled" /\ samBuf.format \notin {0, 1, 2})
          => samBuf.err # "nil" /\ samBuf.buf = <<>>

\* An unpaired read with ProperPair and Unmapped set was formatted as "u".
C18_Witness ==
    /\ samPc = "flags"
    /\ ffl.format = FlagString
    /\ ffl.f = 6
    /\ ffl.out = <<117>>

(***************************************************************************)
(* C20: for every aux byte range on which countAuxFields succeeds with the *)
(* result n, parseAux over the same range writes exactly n entries         *)
(* (indices 0..n-1 of the index array, never beyond it), every entry is a  *)
(* sub-slice [start, end) with 0 <= start < end <= len(range), so that no  *)
(* field reaches past the on-wire aux bytes, and each entry's bytes are    *)
(* the on-wire bytes of that field.                                        *)
(***************************************************************************)
C20_IndexWithinRange ==
    (auxPc \in {"parsed", "queried"} /\ cres.err = "nil")
        => /\ pres.err = "nil"
           /\ Len(pres.aa) = cres.n
           /\ \A k \in 1..Len(pres.aa) :
                  /\ 0 <= pres.aa[k].lo
                  /\ pres.aa[k].lo < pres.aa[k].hi
                  /\ pres.aa[k].hi <= Len(aux)
                  /\ auxBytes(aux, pres.aa[k])
                        = SubSeq(aux, pres.aa[k].lo + 1, pres.aa[k].hi)
====
